---- MODULE Spec2Model ----
(***************************************************************************)
(* Model of the cheat-sheet PDF generators (Git, Docker, Laravel, Basic    *)
(* CSS, Flexbox, Grid).  Each generator builds a "story" (a list of        *)
(* flowables: paragraphs, tables, spacers, page breaks) and hands it to    *)
(* the layout engine.                                                      *)
(*                                                                         *)
(* Text is a sequence of one-character strings, so that escaping and       *)
(* markup assembly are computed character by character.  A row field is a  *)
(* record [t, v]: t is the Python type of the field ("str" or "int") and   *)
(* v the characters of str(field).  Lengths are in units of 0.1 mm.        *)
(*                                                                         *)
(* Three specifications:                                                   *)
(*   Spec       one run of a generator script (module import, main,        *)
(*              generate_pdf, doc.build, summary, viewer, handlers);       *)
(*   SpecTable  one generator instance whose add_title and table builder   *)
(*              are called with rows drawn from a bounded input set and    *)
(*              with the arguments of the script's own calls;              *)
(*   SpecPair   two instances of one generator class in one process.       *)
(***************************************************************************)
EXTENDS Integers, Sequences, FiniteSets, TLC

VARIABLES
    gen,          \* which generator script is running
    pc,           \* position of the run / of the instance
    story,        \* self.story
    styles,       \* names registered in self.styles by create_custom_styles
    exc,          \* the exception in flight or last raised ("None" if none)
    call,         \* arguments of the last table-builder call (NoCall if none)
    step,         \* index of the next statement of generate_pdf's body
    reportlab,    \* environment: is the reportlab package importable
    fault,        \* environment: the library/OS call that fails in this run
    platformName, \* environment: platform.system()
    fileWritten,  \* has doc.build written the output file
    document,     \* the PDF file doc.build wrote (NoDocument if none)
    output,       \* messages printed so far, in order
    viewer,       \* commands handed to os.system, in order
    laid,         \* doc.build: number of flowables laid out so far
    curPage,      \* doc.build: page being filled
    pageStart,    \* doc.build: page on which flowable i starts
    pageEnd,      \* doc.build: page on which flowable i ends
    colors,       \* self.colors
    other,        \* a second instance of the same class (NoInstance if none)
    defaults      \* the default col_widths list of create_command_table

vars == <<gen, pc, story, styles, exc, call, step, reportlab, fault,
          platformName, fileWritten, document, output, viewer, laid, curPage,
          pageStart, pageEnd, colors, other, defaults>>

pairVars == <<colors, other, defaults>>

runVars == <<step, reportlab, fault, platformName, fileWritten, document, output,
             viewer, laid, curPage, pageStart, pageEnd>>

(***************************************************************************)
(* Bounds of the model.                                                    *)
(***************************************************************************)
MaxRows == 2        \* longest row list handed to a table builder
MaxTextLen == 2     \* longest exhaustively enumerated row text
MaxOverflow == 1    \* most automatic page wraps in one doc.build
MaxCalls == 3       \* most method calls on a pair of instances
MaxClock == 1       \* latest clock reading (seconds after the earliest)

(***************************************************************************)
(* Generators.                                                             *)
(***************************************************************************)
Generators == {"Git", "Docker", "Laravel", "BasicCSS", "Flexbox", "Grid"}
CommandGens == {"Git", "Docker", "Laravel"}
ComparisonGens == {"BasicCSS", "Flexbox", "Grid"}

(***************************************************************************)
(* Text.                                                                   *)
(***************************************************************************)
RECURSIVE Replace(_, _, _)
\* str.replace(old, new) for a one-character old.
Replace(s, old, new) ==
    IF s = <<>> THEN <<>>
    ELSE (IF Head(s) = old THEN new ELSE <<Head(s)>>) \o Replace(Tail(s), old, new)

\* html.escape with '&' replaced last: a double-escaping bug.
html_escape_amp_last(s) ==
    LET s1 == Replace(s, "<", <<"&","l","t",";">>)
        s2 == Replace(s1, ">", <<"&","g","t",";">>)
        s3 == Replace(s2, "\"", <<"&","q","u","o","t",";">>)
        s4 == Replace(s3, "'", <<"&","#","x","2","7",";">>)
    IN  Replace(s4, "&", <<"&","a","m","p",";">>)

\* html.escape that forgets the ampersand.
html_escape_no_amp(s) ==
    LET s2 == Replace(s, "<", <<"&","l","t",";">>)
        s3 == Replace(s2, ">", <<"&","g","t",";">>)
        s4 == Replace(s3, "\"", <<"&","q","u","o","t",";">>)
    IN  Replace(s4, "'", <<"&","#","x","2","7",";">>)

\* html.escape(s) with quote=True: five replace passes, '&' first.
html_escape(s) ==
    LET s1 == Replace(s, "&", <<"&","a","m","p",";">>)
        s2 == Replace(s1, "<", <<"&","l","t",";">>)
        s3 == Replace(s2, ">", <<"&","g","t",";">>)
        s4 == Replace(s3, "\"", <<"&","q","u","o","t",";">>)
    IN  Replace(s4, "'", <<"&","#","x","2","7",";">>)

\* A test for old at the start of s (str.startswith) in place of the
\* substring test.
ContainsAtStart(s, old) ==
    Len(old) <= Len(s) /\ SubSeq(s, 1, Len(old)) = old

\* old in s (Python's substring test on str).
Contains(s, old) ==
    \E i \in 0..(Len(s) - Len(old)) : SubSeq(s, i + 1, i + Len(old)) = old

\* A row field: Python type and the characters of str(field).
Str(chars) == [t |-> "str", v |-> chars]
Int7 == [t |-> "int", v |-> <<"7">>]

\* f"{x}": format() of a str is the str, of an int its decimal digits.
Format(f) == f.v

FontOpenPrefix == <<"<","f","o","n","t"," ","n","a","m","e","=","'","C","o","u","r","i","e","r","-","B","o","l","d","'"," ","c","o","l","o","r","=","'">>
FontOpenSuffix == <<"'",">">>
FontClose == <<"<","/","f","o","n","t",">">>

\* A label markup that ignores the row's colour and uses the header colour
\* of the Laravel script ('#FF2D20').
FontMarkupHeaderColor(color, body) ==
    FontOpenPrefix \o <<"#","F","F","2","D","2","0">> \o FontOpenSuffix \o body \o FontClose

\* f"<font name='Courier-Bold' color='{color}'>{body}</font>"
FontMarkup(color, body) ==
    FontOpenPrefix \o color \o FontOpenSuffix \o body \o FontClose

LowerHex(c) ==
    CASE c = "A" -> "a" [] c = "B" -> "b" [] c = "C" -> "c"
      [] c = "D" -> "d" [] c = "E" -> "e" [] c = "F" -> "f"
      [] OTHER -> c

\* HexColor('#RRGGBB').hexval() is '0xrrggbb'.
hexval(hex) == <<"0","x">> \o [i \in 1..6 |-> LowerHex(hex[i + 1])]

(***************************************************************************)
(* Page geometry and colours fixed in the constructors.                    *)
(***************************************************************************)
cm == 100
A4Width == 2100

Margin(g) == IF g = "Docker" THEN (12 * cm) \div 10 ELSE 1 * cm

WarningColor == <<"#","E","7","4","C","3","C">>
GitCommandColor == <<"#","F","F","6","B","3","5">>
DockerCommandColor == <<"#","D","3","5","4","0","0">>
LaravelDefaultColor == <<"#","3","4","9","8","D","B">>

CssColor(g) ==
    IF g = "Grid" THEN <<"#","E","F","4","4","4","4">>
    ELSE <<"#","D","C","2","6","2","6">>

TailwindColor(g) ==
    IF g = "Grid" THEN <<"#","8","B","5","C","F","6">>
    ELSE <<"#","7","C","3","A","E","D">>

(***************************************************************************)
(* Flowables.                                                              *)
(***************************************************************************)
\* Paragraph(markup, style) in a table cell.
Cell(markup, style) == [kind |-> "Paragraph", markup |-> markup, style |-> style]
\* A plain string in a table cell (the header row).
Plain(s) == [kind |-> "Plain", str |-> s]
\* Paragraph(text, style) with a literal text of the source.
Para(text, style) == [kind |-> "Paragraph", text |-> text, style |-> style]
Spacer(h) == [kind |-> "Spacer", height |-> h]
PageBreak == [kind |-> "PageBreak"]
Table(data, colWidths, repeatRows) ==
    [kind |-> "Table", data |-> data, colWidths |-> colWidths,
     repeatRows |-> repeatRows]

\* self.story.append(x) done at the front: a bug that reverses the story.
StoryPrepend(s, x) == <<x>> \o s

\* self.story.append(x)
StoryAppend(s, x) == Append(s, x)

(***************************************************************************)
(* Table builders.  A builder returns the story it leaves behind and the   *)
(* exception it raised ("None" when it returned normally).                 *)
(***************************************************************************)
NoWidths == <<>>   \* col_widths / dangerous_commands left to the default

\* Paragraph(x, style) raises AttributeError unless x is a str: the
\* constructor cleans its text with str methods.
ParagraphRaises(f) == f.t # "str"

\* Table(data, ...) raises ValueError for an empty table
\* (rl_config.emptyTableAction is 'error').
TableRaises(data) == data = <<>>

Raised(e) == [exc |-> e, cells |-> <<>>]
Cells(c) == [exc |-> "None", cells |-> c]

\* The Git loop body unpacking the first and the last element of a row of
\* any length instead of exactly two.
GitRowCellsAnyShape(row, dangerous_commands) ==
    IF Len(row) < 2 THEN Raised("ValueError")
    ELSE IF ParagraphRaises(row[Len(row)]) THEN Raised("AttributeError")
    ELSE Cells(<<Cell(FontMarkup(GitCommandColor, Format(row[1])), "Normal"),
                 Cell(row[Len(row)].v, "Normal")>>)

\* Git, body of "for cmd, desc in commands".
GitRowCells(row, dangerous_commands) ==
    IF Len(row) # 2 THEN Raised("ValueError")
    ELSE LET cmd == row[1]
             desc == row[2]
         IN  IF dangerous_commands # <<>> /\ cmd.t # "str" THEN Raised("TypeError")
             ELSE LET danger == \E i \in 1..Len(dangerous_commands) :
                                    Contains(cmd.v, dangerous_commands[i])
                      color == IF danger THEN WarningColor ELSE GitCommandColor
                  IN  IF ParagraphRaises(desc) THEN Raised("AttributeError")
                      ELSE Cells(<<Cell(FontMarkup(color, Format(cmd)), "Normal"),
                                   Cell(desc.v, "Normal")>>)

\* Docker, body of "for cmd, desc in commands".
DockerRowCells(row) ==
    IF Len(row) # 2 THEN Raised("ValueError")
    ELSE LET cmd == row[1]
             desc == row[2]
         IN  IF ParagraphRaises(desc) THEN Raised("AttributeError")
             ELSE Cells(<<Cell(FontMarkup(DockerCommandColor, Format(cmd)), "Normal"),
                          Cell(desc.v, "Description")>>)

\* The Laravel loop body with the colour tag of the row ignored.
LaravelRowCellsNoTag(item) ==
    IF Len(item) # 3 /\ Len(item) # 2 THEN Raised("ValueError")
    ELSE IF item[1].t # "str" \/ item[2].t # "str" THEN Raised("AttributeError")
    ELSE Cells(<<Cell(FontMarkup(LaravelDefaultColor, html_escape(item[1].v)), "Normal"),
                 Cell(html_escape(item[2].v), "Normal")>>)

\* Laravel, body of "for item in commands_with_colors".
LaravelRowCells(item) ==
    IF Len(item) # 3 /\ Len(item) # 2 THEN Raised("ValueError")
    ELSE LET cmd == item[1]
             desc == item[2]
             color == IF Len(item) = 3 THEN Format(item[3]) ELSE LaravelDefaultColor
         IN  IF cmd.t # "str" \/ desc.t # "str" THEN Raised("AttributeError")
             ELSE LET escaped_cmd == html_escape(cmd.v)
                      escaped_desc == html_escape(desc.v)
                  IN  Cells(<<Cell(FontMarkup(color, escaped_cmd), "Normal"),
                              Cell(escaped_desc, "Normal")>>)

\* Basic CSS, Flexbox, Grid: body of "for css, tailwind, desc in properties".
ComparisonRowCells(g, row) ==
    IF Len(row) # 3 THEN Raised("ValueError")
    ELSE LET css == row[1]
             tailwind == row[2]
             desc == row[3]
         IN  IF ParagraphRaises(desc) THEN Raised("AttributeError")
             ELSE Cells(<<Cell(FontMarkup(hexval(CssColor(g)), Format(css)), "Normal"),
                          Cell(FontMarkup(hexval(TailwindColor(g)), Format(tailwind)), "Normal"),
                          Cell(desc.v, "Normal")>>)

\* One body for the four loops.
RowCells(g, row, dangerous_commands) ==
    CASE g = "Git" -> GitRowCells(row, dangerous_commands)
      [] g = "Docker" -> DockerRowCells(row)
      [] g = "Laravel" -> LaravelRowCells(row)
      [] OTHER -> ComparisonRowCells(g, row)

\* data.append([...]) that overwrites the last row instead of adding one.
DataOverwrite(data, cells) ==
    IF data = <<>> THEN <<cells>> ELSE [data EXCEPT ![Len(data)] = cells]

\* data.append([...]) done at the front.
DataPrepend(data, cells) == <<cells>> \o data

\* data.append([...])
DataAppend(data, cells) == Append(data, cells)

RECURSIVE RowLoop(_, _, _, _, _)
\* The for loop over the rows, from row i on: stops at the first row that
\* raises, otherwise appends one table row per input row.
RowLoop(g, rows, dangerous_commands, i, data) ==
    IF i > Len(rows) THEN [exc |-> "None", data |-> data]
    ELSE LET r == RowCells(g, rows[i], dangerous_commands)
         IN  IF r.exc # "None" THEN [exc |-> r.exc, data |-> data]
             ELSE RowLoop(g, rows, dangerous_commands, i + 1, DataAppend(data, r.cells))

HeaderRow == <<Plain("CSS Property"), Plain("Tailwind Class"), Plain("Description")>>

\* Laravel: [available_width * 0.a, available_width * 0.b]
Ratio(a, b) ==
    LET available_width == A4Width - 2 * cm
    IN  <<(available_width * a) \div 10, (available_width * b) \div 10>>

\* The default of col_widths with the Laravel split the wrong way round
\* and short of the page: 60% and 30%.
DefaultColWidthsShort(g) ==
    IF g = "Laravel" THEN Ratio(6, 3) ELSE <<7 * cm, 8 * cm>>

\* The default of col_widths with the Laravel shares swapped: 40% and 60%.
DefaultColWidthsSwapped(g) ==
    IF g = "Laravel" THEN Ratio(4, 6) ELSE <<7 * cm, 8 * cm>>

\* The default of col_widths.
DefaultColWidths(g) ==
    IF g = "Laravel" THEN Ratio(6, 4) ELSE <<7 * cm, 8 * cm>>

ComparisonColWidths == <<6 * cm, 5 * cm, 6 * cm>>

\* Colours of the table styles (reportlab's white and self.colors).
White == "#FFFFFF"
BackgroundColor(g) == IF g \in {"Git", "Laravel"} THEN "#F8F9FA" ELSE "#F9FAFB"
RowAltColor(g) == IF g = "Docker" THEN "#F3F4F6" ELSE BackgroundColor(g)
HeaderColor(g) ==
    CASE g = "BasicCSS" -> "#3B82F6"
      [] g = "Flexbox" -> "#2563EB"
      [] g = "Grid" -> "#10B981"
      [] g = "Git" -> "#F14E32"
      [] g = "Docker" -> "#1F2937"
      [] OTHER -> "#FF2D20"

\* A TableStyle command that paints backgrounds, over rows sr..er (0-based,
\* -1 is the last row).
StyleCmd(cmd, sr, er, cycle) == [cmd |-> cmd, sr |-> sr, er |-> er, colors |-> cycle]

\* The comparison style with ROWBACKGROUNDS starting at row 0, the header.
BackgroundCmdsFromTop(g) ==
    IF g \in ComparisonGens
    THEN << StyleCmd("BACKGROUND", 0, 0, <<HeaderColor(g)>>),
            StyleCmd("BACKGROUND", 1, -1, <<BackgroundColor(g)>>),
            StyleCmd("ROWBACKGROUNDS", 0, -1, <<White, BackgroundColor(g)>>) >>
    ELSE << StyleCmd("BACKGROUND", 0, -1, <<BackgroundColor(g)>>),
            StyleCmd("ROWBACKGROUNDS", 0, -1, <<White, RowAltColor(g)>>) >>

\* The BACKGROUND and ROWBACKGROUNDS commands of table.setStyle, in order
\* (the other commands of the style paint no background).
BackgroundCmds(g) ==
    IF g \in ComparisonGens
    THEN << StyleCmd("BACKGROUND", 0, 0, <<HeaderColor(g)>>),
            StyleCmd("BACKGROUND", 1, -1, <<BackgroundColor(g)>>),
            StyleCmd("ROWBACKGROUNDS", 1, -1, <<White, BackgroundColor(g)>>) >>
    ELSE << StyleCmd("BACKGROUND", 0, -1, <<BackgroundColor(g)>>),
            StyleCmd("ROWBACKGROUNDS", 0, -1, <<White, RowAltColor(g)>>) >>

\* table.setStyle(TableStyle([...]))
setStyle(t, cmds) ==
    [kind |-> t.kind, data |-> t.data, colWidths |-> t.colWidths,
     repeatRows |-> t.repeatRows, style |-> cmds]

\* The shared part of the builders without the trailing spacer.
BuildTableNoSpacer(g, s, title, rows, widths, dangerous_commands) ==
    LET s1 == Append(s, Para(title, "SectionHeader"))
        first == IF g \in ComparisonGens THEN <<HeaderRow>> ELSE <<>>
        r == RowLoop(g, rows, dangerous_commands, 1, first)
    IN  IF r.exc # "None" THEN [story |-> s1, exc |-> r.exc]
        ELSE IF r.data = <<>> THEN [story |-> s1, exc |-> "ValueError"]
        ELSE [story |-> Append(s1, Table(r.data, widths, 0)), exc |-> "None"]

\* Heading, rows, Table(...), spacer: the part the six builders share.
BuildTable(g, s, title, rows, widths, dangerous_commands) ==
    LET s1 == StoryAppend(s, Para(title, "SectionHeader"))
        first == IF g \in ComparisonGens THEN <<HeaderRow>> ELSE <<>>
        repeatRows == IF g \in ComparisonGens THEN 1 ELSE 0
        r == RowLoop(g, rows, dangerous_commands, 1, first)
    IN  IF r.exc # "None" THEN [story |-> s1, exc |-> r.exc]
        ELSE IF TableRaises(r.data) THEN [story |-> s1, exc |-> "ValueError"]
        ELSE [story |-> StoryAppend(StoryAppend(s1, setStyle(Table(r.data, widths, repeatRows),
                                                         BackgroundCmds(g))),
                                    Spacer((3 * cm) \div 10)),
              exc |-> "None"]

\* GitCheatSheetPDF.create_command_table
Git_create_command_table(s, title, commands, col_widths, dangerous_commands) ==
    BuildTable("Git", s, title, commands,
               IF col_widths = NoWidths THEN DefaultColWidths("Git") ELSE col_widths,
               dangerous_commands)

\* DockerCheatSheetPDF.create_command_table
Docker_create_command_table(s, title, commands, col_widths) ==
    BuildTable("Docker", s, title, commands,
               IF col_widths = NoWidths THEN DefaultColWidths("Docker") ELSE col_widths,
               <<>>)

\* LaravelCheatSheetPDF.create_command_table
Laravel_create_command_table(s, title, commands_with_colors, col_widths) ==
    BuildTable("Laravel", s, title, commands_with_colors,
               IF col_widths = NoWidths THEN DefaultColWidths("Laravel") ELSE col_widths,
               <<>>)

\* create_comparison_table of BasicCSS, Flexbox and Grid
create_comparison_table(g, s, title, properties) ==
    BuildTable(g, s, title, properties, ComparisonColWidths, <<>>)

\* The builder of generator g.
create_table(g, s, title, rows, col_widths, dangerous_commands) ==
    CASE g = "Git" -> Git_create_command_table(s, title, rows, col_widths, dangerous_commands)
      [] g = "Docker" -> Docker_create_command_table(s, title, rows, col_widths)
      [] g = "Laravel" -> Laravel_create_command_table(s, title, rows, col_widths)
      [] OTHER -> create_comparison_table(g, s, title, rows)

(***************************************************************************)
(* Title block and callouts.                                               *)
(***************************************************************************)
SampleStyles == {"Normal", "Heading1", "Heading2", "Code"}

\* A create_custom_styles that runs its self.styles.add statements twice.
StyleAddsTwice(g) ==
    LET once == CASE g = "Docker" -> <<"MainTitle", "SectionHeader", "Command", "Description">>
                  [] g \in ComparisonGens -> <<"MainTitle", "SectionHeader", "Subtitle">>
                  [] OTHER -> <<"MainTitle", "SectionHeader">>
    IN  once \o once

\* The self.styles.add(ParagraphStyle(name=...)) statements of
\* create_custom_styles, in order.
StyleAdds(g) ==
    CASE g = "Docker" -> <<"MainTitle", "SectionHeader", "Command", "Description">>
      [] g \in ComparisonGens -> <<"MainTitle", "SectionHeader", "Subtitle">>
      [] OTHER -> <<"MainTitle", "SectionHeader">>

\* The names create_custom_styles adds to the stylesheet.
CustomStyles(g) == {StyleAdds(g)[i] : i \in 1..Len(StyleAdds(g))}

\* StyleSheet1.add for the first n statements: a name the sheet already
\* holds raises KeyError and the remaining statements are not reached.
RECURSIVE AddStyles(_, _, _)
AddStyles(sheet, adds, n) ==
    IF n = 0 THEN [names |-> sheet, exc |-> "None"]
    ELSE LET r == AddStyles(sheet, adds, n - 1)
         IN  IF r.exc # "None" THEN r
             ELSE IF adds[n] \in r.names THEN [names |-> r.names, exc |-> "KeyError"]
             ELSE [names |-> r.names \cup {adds[n]}, exc |-> "None"]

\* create_custom_styles on the sheet of getSampleStyleSheet().
create_custom_styles(g) == AddStyles(SampleStyles, StyleAdds(g), Len(StyleAdds(g)))

\* A panel built with the paragraph in a row of its own after an empty row.
CalloutTwoRows(text) ==
    Table(<< <<Para("", "Normal")>>, <<Para(text, "Normal")>> >>, <<17 * cm>>, 0)

\* A single-cell panel: Table([[para]], colWidths=[17*cm]).
Callout(text) == Table(<< <<Para(text, "Normal")>> >>, <<17 * cm>>, 0)

MainTitleText(g) ==
    CASE g = "Git" -> "Git Commands Cheat Sheet"
      [] g = "Docker" -> "Docker Commands Cheat Sheet"
      [] g = "Laravel" -> "Laravel 11 Cheat Sheet"
      [] g = "BasicCSS" -> "Basic CSS vs Tailwind CSS"
      [] g = "Flexbox" -> "CSS Flexbox vs Tailwind CSS"
      [] OTHER -> "CSS Grid vs Tailwind CSS"

\* add_title with the spacer appended before the title paragraph.
add_title_spacer_first(g, s) ==
    Append(Append(s, Spacer((5 * cm) \div 10)), Para(MainTitleText(g), "MainTitle"))

\* add_title
add_title(g, s) ==
    LET s1 == StoryAppend(s, Para(MainTitleText(g), "MainTitle"))
    IN  CASE g = "Git" -> StoryAppend(s1, Spacer((5 * cm) \div 10))
          [] g = "Docker" ->
               StoryAppend(StoryAppend(s1, Para("Complete Reference Guide for Docker Commands", "Subtitle")),
                           Spacer((8 * cm) \div 10))
          [] g = "Laravel" ->
               StoryAppend(StoryAppend(StoryAppend(s1, Spacer((3 * cm) \div 10)),
                                       Callout("legend_text")),
                           Spacer((5 * cm) \div 10))
          [] g = "BasicCSS" ->
               StoryAppend(StoryAppend(s1, Para("Essential Styling Properties Cheat Sheet", "Subtitle")),
                           Spacer((5 * cm) \div 10))
          [] OTHER ->
               StoryAppend(StoryAppend(s1, Para("Face-to-Face Comparison Cheat Sheet", "Subtitle")),
                           Spacer((5 * cm) \div 10))

(***************************************************************************)
(* Inputs of the table builders.                                           *)
(***************************************************************************)
SeqsUpTo(S, n) == UNION {[1..k -> S] : k \in 0..n}

TxtGitInit == <<"g","i","t"," ","i","n","i","t">>
TxtStatus == <<"S","h","o","w"," ","s","t","a","t","u","s">>
TxtScript == <<"<","s","c","r","i","p","t",">">>
TxtAmp == <<"U","R","L","s"," ","&"," ","a","r","c","h","i","v","e","s">>
TxtPreEsc == <<"&","l","t",";","u","r","l","&","g","t",";">>
TxtGreen == <<"#","2","7","A","E","6","0">>

\* Rows of both shapes, well-formed and malformed.
SampleRows ==
    { <<Str(TxtGitInit), Str(TxtStatus)>>,
      <<Str(TxtScript), Str(TxtStatus)>>,
      <<Str(TxtGitInit), Str(TxtAmp)>>,
      <<Str(TxtPreEsc), Str(TxtStatus)>>,
      <<Int7, Str(TxtStatus)>>,
      <<Str(TxtGitInit), Int7>>,
      <<Str(TxtGitInit), Str(TxtStatus), Str(TxtGreen)>>,
      <<Str(TxtScript), Str(TxtAmp), Str(TxtStatus)>>,
      <<Str(TxtGitInit), Str(TxtStatus), Int7>>,
      <<Str(TxtGitInit)>> }

Alphabet == {"a", "<", ">", "&", "\"", "'"}
Texts == SeqsUpTo(Alphabet, MaxTextLen) \cup {TxtPreEsc, <<"&","a","m","p",";">>}

\* One-row sections whose every field is the same text.
TextRowLists(g) ==
    IF g \in ComparisonGens
    THEN { << <<Str(t), Str(t), Str(t)>> >> : t \in Texts }
    ELSE { << <<Str(t), Str(t)>> >> : t \in Texts }

RowLists(g) == SeqsUpTo(SampleRows, MaxRows) \cup TextRowLists(g)

\* The col_widths arguments of the call sites.
WidthArgs(g) ==
    CASE g = "Git" -> {NoWidths, <<6 * cm, 9 * cm>>, <<8 * cm, 7 * cm>>}
      [] g = "Docker" -> {NoWidths, <<6 * cm, 9 * cm>>}
      [] g = "Laravel" -> {NoWidths, Ratio(7, 3), Ratio(5, 5)}
      [] OTHER -> {NoWidths}

\* dangerous_commands arguments (Git only).
DangerArgs(g) ==
    IF g = "Git" THEN {<<>>, << <<"i","n","i","t">>, <<"-","-","f","o","r","c","e">> >>}
    ELSE {<<>>}

NoCall == [title |-> "", rows |-> <<>>, col_widths |-> <<>>,
           dangerous_commands |-> <<>>, before |-> <<>>]

(***************************************************************************)
(* Instance and module state besides the story and the stylesheet.         *)
(***************************************************************************)
SectionColor(g) ==
    CASE g = "Git" -> "#2E8B57"
      [] g = "Docker" -> "#059669"
      [] g = "Laravel" -> "#F39C12"
      [] g = "BasicCSS" -> "#10B981"
      [] g = "Flexbox" -> "#059669"
      [] OTHER -> "#F59E0B"

\* self.colors = {...} of __init__ (the entries the table styles use).
ColorTable(g) ==
    [header |-> HeaderColor(g), section |-> SectionColor(g),
     background |-> BackgroundColor(g)]

NoColors == [header |-> "", section |-> "", background |-> ""]

NoInstance == [story |-> <<>>, styles |-> {}, colors |-> NoColors]

\* The list the def statement of create_command_table evaluates once for
\* col_widths=[7*cm, 8*cm] (Git, Docker); the other builders have no
\* default list.
ModuleDefaults(g) == IF g \in {"Git", "Docker"} THEN <<7 * cm, 8 * cm>> ELSE NoWidths

\* Readings of the system clock, in seconds.
Clock == 0..MaxClock

\* The file doc.build writes for a story: SimpleDocTemplate is constructed
\* without invariant=1, so the library stamps the document information
\* (CreationDate, ModDate, and the trailer ID derived from them) with the
\* clock reading taken when the build starts.
PDFDocument(s, t) == [story |-> s, CreationDate |-> t]

NoDocument == [story |-> <<>>, CreationDate |-> -1]

(***************************************************************************)
(* generate_pdf: the statements before doc.build, in order.                *)
(***************************************************************************)
TitleStmt == [op |-> "title", title |-> "", widths |-> <<>>, danger |-> <<>>, spacer |-> FALSE]
PageBreakStmt == [op |-> "pagebreak", title |-> "", widths |-> <<>>, danger |-> <<>>, spacer |-> FALSE]
SectionStmt(title, widths, danger) ==
    [op |-> "section", title |-> title, widths |-> widths, danger |-> danger, spacer |-> TRUE]
CalloutStmt(text, spacer) ==
    [op |-> "callout", title |-> text, widths |-> <<>>, danger |-> <<>>, spacer |-> spacer]

\* Git: the body of generate_pdf up to doc.build.
GitPlan ==
    <<
      TitleStmt,
      SectionStmt("Basic Git Operations", NoWidths, <<>>),
      SectionStmt("Branching & Merging", NoWidths, <<<<"r","e","s","e","t"," ","-","-","h","a","r","d">>, <<"p","u","s","h"," ","-","-","f","o","r","c","e">>, <<"r","e","b","a","s","e">>>>),
      SectionStmt("Remote Repository Operations", NoWidths, <<<<"p","u","s","h"," ","-","-","f","o","r","c","e">>>>),
      SectionStmt("Inspection & Comparison", NoWidths, <<>>),
      PageBreakStmt,
      SectionStmt("Undoing Changes", NoWidths, <<<<"r","e","s","e","t"," ","-","-","h","a","r","d">>, <<"c","l","e","a","n"," ","-","f","d">>>>),
      SectionStmt("Stashing", <<6 * cm, 9 * cm>>, <<>>),
      SectionStmt("Advanced Commands", <<6 * cm, 9 * cm>>, <<<<"f","i","l","t","e","r","-","b","r","a","n","c","h">>, <<"g","c"," ","-","-","a","g","g","r","e","s","s","i","v","e">>>>),
      SectionStmt("Configuration", <<8 * cm, 7 * cm>>, <<>>),
      CalloutStmt("workflows_text", TRUE),
      CalloutStmt("tips_text", FALSE)
    >>

\* Docker: the body of generate_pdf up to doc.build.
DockerPlan ==
    <<
      TitleStmt,
      SectionStmt("Container Management", NoWidths, <<>>),
      SectionStmt("Container Information & Logs", NoWidths, <<>>),
      SectionStmt("Image Management", NoWidths, <<>>),
      PageBreakStmt,
      SectionStmt("Network & Volume Management", NoWidths, <<>>),
      SectionStmt("Docker Compose", NoWidths, <<>>),
      SectionStmt("System Management & Cleanup", NoWidths, <<>>),
      SectionStmt("Common Docker Run Options", <<6 * cm, 9 * cm>>, <<>>),
      SectionStmt("Common Dockerfile Instructions", <<6 * cm, 9 * cm>>, <<>>),
      CalloutStmt("tips_text", FALSE)
    >>

\* Laravel: the body of generate_pdf up to doc.build.
LaravelPlan ==
    <<
      TitleStmt,
      SectionStmt("Installation & Setup", NoWidths, <<>>),
      SectionStmt("Artisan Commands", NoWidths, <<>>),
      SectionStmt("Routing", Ratio(7, 3), <<>>),
      PageBreakStmt,
      SectionStmt("Database & Migrations", NoWidths, <<>>),
      SectionStmt("Eloquent ORM", NoWidths, <<>>),
      SectionStmt("Blade Templates", Ratio(5, 5), <<>>),
      PageBreakStmt,
      SectionStmt("Authentication", NoWidths, <<>>),
      SectionStmt("Middleware", NoWidths, <<>>),
      SectionStmt("Validation Rules", NoWidths, <<>>),
      SectionStmt("API Development", NoWidths, <<>>),
      PageBreakStmt,
      SectionStmt("Queues & Jobs", NoWidths, <<>>),
      SectionStmt("Cache Management", NoWidths, <<>>),
      SectionStmt("Storage & Files", NoWidths, <<>>),
      SectionStmt("Laravel Sail (Docker)", NoWidths, <<>>),
      SectionStmt("Testing", NoWidths, <<>>),
      PageBreakStmt,
      SectionStmt("Inertia.js Integration", NoWidths, <<>>),
      SectionStmt("Livewire Components", NoWidths, <<>>),
      SectionStmt("Deployment & Optimization", NoWidths, <<>>),
      CalloutStmt("tips_text", FALSE)
    >>

\* BasicCSS: the body of generate_pdf up to doc.build.
BasicCSSPlan ==
    <<
      TitleStmt,
      SectionStmt("Layout & Positioning", NoWidths, <<>>),
      SectionStmt("Spacing (Margin & Padding)", NoWidths, <<>>),
      SectionStmt("Sizing (Width & Height)", NoWidths, <<>>),
      SectionStmt("Typography & Text", NoWidths, <<>>),
      SectionStmt("Background & Borders", NoWidths, <<>>),
      CalloutStmt("examples_text", TRUE),
      CalloutStmt("tips_text", FALSE)
    >>

\* Flexbox: the body of generate_pdf up to doc.build.
FlexboxPlan ==
    <<
      TitleStmt,
      SectionStmt("Flex Container Properties", NoWidths, <<>>),
      SectionStmt("Flex Item Properties", NoWidths, <<>>),
      CalloutStmt("examples_text", TRUE),
      CalloutStmt("tips_text", FALSE)
    >>

\* Grid: the body of generate_pdf up to doc.build.
GridPlan ==
    <<
      TitleStmt,
      SectionStmt("Grid Container Properties", NoWidths, <<>>),
      SectionStmt("Grid Item Properties", NoWidths, <<>>),
      CalloutStmt("examples_text", TRUE),
      CalloutStmt("tips_text", FALSE)
    >>

Plan(g) ==
    CASE g = "Git" -> GitPlan
      [] g = "Docker" -> DockerPlan
      [] g = "Laravel" -> LaravelPlan
      [] g = "BasicCSS" -> BasicCSSPlan
      [] g = "Flexbox" -> FlexboxPlan
      [] OTHER -> GridPlan

\* Content of a section in a run: well-formed rows of the generator's shape.
GoodRows(g) ==
    CASE g \in ComparisonGens ->
           << <<Str(TxtGitInit), Str(TxtStatus), Str(TxtStatus)>>,
              <<Str(TxtPreEsc), Str(TxtGitInit), Str(TxtStatus)>> >>
      [] g = "Laravel" ->
           << <<Str(TxtGitInit), Str(TxtStatus), Str(TxtGreen)>>,
              <<Str(TxtScript), Str(TxtStatus)>> >>
      [] OTHER ->
           << <<Str(TxtGitInit), Str(TxtStatus)>>,
              <<Str(TxtPreEsc), Str(TxtStatus)>> >>

\* A section with a malformed row (its description is not text).
BadRows == << <<Str(TxtGitInit), Str(TxtStatus)>>, <<Str(TxtGitInit), Int7>> >>

RunRowLists(g) == {GoodRows(g), BadRows}

(***************************************************************************)
(* The rows the add_* methods of the Git and the Laravel script hand to    *)
(* their table builder.  A character outside ASCII is one element, named   *)
(* by its code point ("U+26A0" and "U+FE0F" make up the warning sign).     *)
(***************************************************************************)
\* A tuple of str literals.
Row(fields) == [i \in 1..Len(fields) |-> Str(fields[i])]

\* GitCheatSheetPDF.add_basic_commands: the rows of "Basic Git Operations".
add_basic_commands ==
    <<
       Row(<<<<"g","i","t"," ","i","n","i","t">>, <<"I","n","i","t","i","a","l","i","z","e"," ","a"," ","n","e","w"," ","G","i","t"," ","r","e","p","o","s","i","t","o","r","y">>>>),
       Row(<<<<"g","i","t"," ","c","l","o","n","e"," ","&","l","t",";","u","r","l","&","g","t",";">>, <<"C","l","o","n","e"," ","r","e","m","o","t","e"," ","r","e","p","o","s","i","t","o","r","y"," ","t","o"," ","l","o","c","a","l"," ","m","a","c","h","i","n","e">>>>),
       Row(<<<<"g","i","t"," ","c","l","o","n","e"," ","&","l","t",";","u","r","l","&","g","t",";"," ","&","l","t",";","d","i","r","e","c","t","o","r","y","&","g","t",";">>, <<"C","l","o","n","e"," ","i","n","t","o"," ","s","p","e","c","i","f","i","c"," ","d","i","r","e","c","t","o","r","y">>>>),
       Row(<<<<"g","i","t"," ","s","t","a","t","u","s">>, <<"S","h","o","w"," ","w","o","r","k","i","n","g"," ","t","r","e","e"," ","s","t","a","t","u","s">>>>),
       Row(<<<<"g","i","t"," ","a","d","d"," ","&","l","t",";","f","i","l","e","&","g","t",";">>, <<"A","d","d"," ","f","i","l","e"," ","t","o"," ","s","t","a","g","i","n","g"," ","a","r","e","a">>>>),
       Row(<<<<"g","i","t"," ","a","d","d"," ",".">>, <<"A","d","d"," ","a","l","l"," ","f","i","l","e","s"," ","t","o"," ","s","t","a","g","i","n","g"," ","a","r","e","a">>>>),
       Row(<<<<"g","i","t"," ","a","d","d"," ","-","A">>, <<"A","d","d"," ","a","l","l"," ","f","i","l","e","s"," ","(","i","n","c","l","u","d","i","n","g"," ","d","e","l","e","t","e","d",")">>>>),
       Row(<<<<"g","i","t"," ","c","o","m","m","i","t"," ","-","m"," ","'","&","l","t",";","m","e","s","s","a","g","e","&","g","t",";","'">>, <<"C","o","m","m","i","t"," ","s","t","a","g","e","d"," ","c","h","a","n","g","e","s"," ","w","i","t","h"," ","m","e","s","s","a","g","e">>>>),
       Row(<<<<"g","i","t"," ","c","o","m","m","i","t"," ","-","a","m"," ","'","&","l","t",";","m","e","s","s","a","g","e","&","g","t",";","'">>, <<"A","d","d"," ","a","l","l"," ","t","r","a","c","k","e","d"," ","f","i","l","e","s"," ","a","n","d"," ","c","o","m","m","i","t">>>>),
       Row(<<<<"g","i","t"," ","c","o","m","m","i","t"," ","-","-","a","m","e","n","d">>, <<"M","o","d","i","f","y"," ","l","a","s","t"," ","c","o","m","m","i","t">>>>),
       Row(<<<<"g","i","t"," ","l","o","g">>, <<"S","h","o","w"," ","c","o","m","m","i","t"," ","h","i","s","t","o","r","y">>>>),
       Row(<<<<"g","i","t"," ","l","o","g"," ","-","-","o","n","e","l","i","n","e">>, <<"S","h","o","w"," ","c","o","n","d","e","n","s","e","d"," ","c","o","m","m","i","t"," ","h","i","s","t","o","r","y">>>>),
       Row(<<<<"g","i","t"," ","l","o","g"," ","-","-","g","r","a","p","h">>, <<"S","h","o","w"," ","c","o","m","m","i","t"," ","h","i","s","t","o","r","y"," ","a","s"," ","g","r","a","p","h">>>>)
    >>

\* GitCheatSheetPDF.add_branching_commands: the rows of "Branching & Merging".
add_branching_commands ==
    <<
       Row(<<<<"g","i","t"," ","b","r","a","n","c","h">>, <<"L","i","s","t"," ","l","o","c","a","l"," ","b","r","a","n","c","h","e","s">>>>),
       Row(<<<<"g","i","t"," ","b","r","a","n","c","h"," ","-","a">>, <<"L","i","s","t"," ","a","l","l"," ","b","r","a","n","c","h","e","s"," ","(","l","o","c","a","l"," ","+"," ","r","e","m","o","t","e",")">>>>),
       Row(<<<<"g","i","t"," ","b","r","a","n","c","h"," ","&","l","t",";","b","r","a","n","c","h","-","n","a","m","e","&","g","t",";">>, <<"C","r","e","a","t","e"," ","n","e","w"," ","b","r","a","n","c","h">>>>),
       Row(<<<<"g","i","t"," ","b","r","a","n","c","h"," ","-","d"," ","&","l","t",";","b","r","a","n","c","h","-","n","a","m","e","&","g","t",";">>, <<"D","e","l","e","t","e"," ","m","e","r","g","e","d"," ","b","r","a","n","c","h">>>>),
       Row(<<<<"g","i","t"," ","b","r","a","n","c","h"," ","-","D"," ","&","l","t",";","b","r","a","n","c","h","-","n","a","m","e","&","g","t",";">>, <<"F","o","r","c","e"," ","d","e","l","e","t","e"," ","b","r","a","n","c","h">>>>),
       Row(<<<<"g","i","t"," ","c","h","e","c","k","o","u","t"," ","&","l","t",";","b","r","a","n","c","h","-","n","a","m","e","&","g","t",";">>, <<"S","w","i","t","c","h"," ","t","o"," ","b","r","a","n","c","h">>>>),
       Row(<<<<"g","i","t"," ","c","h","e","c","k","o","u","t"," ","-","b"," ","&","l","t",";","b","r","a","n","c","h","-","n","a","m","e","&","g","t",";">>, <<"C","r","e","a","t","e"," ","a","n","d"," ","s","w","i","t","c","h"," ","t","o"," ","n","e","w"," ","b","r","a","n","c","h">>>>),
       Row(<<<<"g","i","t"," ","s","w","i","t","c","h"," ","&","l","t",";","b","r","a","n","c","h","-","n","a","m","e","&","g","t",";">>, <<"S","w","i","t","c","h"," ","t","o"," ","b","r","a","n","c","h"," ","(","G","i","t"," ","2",".","2","3","+",")">>>>),
       Row(<<<<"g","i","t"," ","s","w","i","t","c","h"," ","-","c"," ","&","l","t",";","b","r","a","n","c","h","-","n","a","m","e","&","g","t",";">>, <<"C","r","e","a","t","e"," ","a","n","d"," ","s","w","i","t","c","h"," ","t","o"," ","n","e","w"," ","b","r","a","n","c","h">>>>),
       Row(<<<<"g","i","t"," ","m","e","r","g","e"," ","&","l","t",";","b","r","a","n","c","h","-","n","a","m","e","&","g","t",";">>, <<"M","e","r","g","e"," ","b","r","a","n","c","h"," ","i","n","t","o"," ","c","u","r","r","e","n","t"," ","b","r","a","n","c","h">>>>),
       Row(<<<<"g","i","t"," ","m","e","r","g","e"," ","-","-","n","o","-","f","f"," ","&","l","t",";","b","r","a","n","c","h","-","n","a","m","e","&","g","t",";">>, <<"M","e","r","g","e"," ","w","i","t","h"," ","m","e","r","g","e"," ","c","o","m","m","i","t">>>>),
       Row(<<<<"g","i","t"," ","r","e","b","a","s","e"," ","&","l","t",";","b","r","a","n","c","h","-","n","a","m","e","&","g","t",";">>, <<"U+26A0","U+FE0F"," ","R","e","b","a","s","e"," ","c","u","r","r","e","n","t"," ","b","r","a","n","c","h"," ","o","n","t","o"," ","b","r","a","n","c","h">>>>)
    >>

\* GitCheatSheetPDF.add_remote_commands: the rows of "Remote Repository Operations".
add_remote_commands ==
    <<
       Row(<<<<"g","i","t"," ","r","e","m","o","t","e">>, <<"L","i","s","t"," ","r","e","m","o","t","e"," ","r","e","p","o","s","i","t","o","r","i","e","s">>>>),
       Row(<<<<"g","i","t"," ","r","e","m","o","t","e"," ","-","v">>, <<"L","i","s","t"," ","r","e","m","o","t","e","s"," ","w","i","t","h"," ","U","R","L","s">>>>),
       Row(<<<<"g","i","t"," ","r","e","m","o","t","e"," ","a","d","d"," ","&","l","t",";","n","a","m","e","&","g","t",";"," ","&","l","t",";","u","r","l","&","g","t",";">>, <<"A","d","d"," ","r","e","m","o","t","e"," ","r","e","p","o","s","i","t","o","r","y">>>>),
       Row(<<<<"g","i","t"," ","r","e","m","o","t","e"," ","r","e","m","o","v","e"," ","&","l","t",";","n","a","m","e","&","g","t",";">>, <<"R","e","m","o","v","e"," ","r","e","m","o","t","e"," ","r","e","p","o","s","i","t","o","r","y">>>>),
       Row(<<<<"g","i","t"," ","f","e","t","c","h">>, <<"D","o","w","n","l","o","a","d"," ","c","h","a","n","g","e","s"," ","f","r","o","m"," ","r","e","m","o","t","e">>>>),
       Row(<<<<"g","i","t"," ","f","e","t","c","h"," ","&","l","t",";","r","e","m","o","t","e","&","g","t",";">>, <<"F","e","t","c","h"," ","f","r","o","m"," ","s","p","e","c","i","f","i","c"," ","r","e","m","o","t","e">>>>),
       Row(<<<<"g","i","t"," ","p","u","l","l">>, <<"F","e","t","c","h"," ","a","n","d"," ","m","e","r","g","e"," ","f","r","o","m"," ","r","e","m","o","t","e">>>>),
       Row(<<<<"g","i","t"," ","p","u","l","l"," ","-","-","r","e","b","a","s","e">>, <<"F","e","t","c","h"," ","a","n","d"," ","r","e","b","a","s","e"," ","i","n","s","t","e","a","d"," ","o","f"," ","m","e","r","g","e">>>>),
       Row(<<<<"g","i","t"," ","p","u","s","h">>, <<"P","u","s","h"," ","c","h","a","n","g","e","s"," ","t","o"," ","r","e","m","o","t","e">>>>),
       Row(<<<<"g","i","t"," ","p","u","s","h"," ","&","l","t",";","r","e","m","o","t","e","&","g","t",";"," ","&","l","t",";","b","r","a","n","c","h","-","n","a","m","e","&","g","t",";">>, <<"P","u","s","h"," ","b","r","a","n","c","h"," ","t","o"," ","s","p","e","c","i","f","i","c"," ","r","e","m","o","t","e">>>>),
       Row(<<<<"g","i","t"," ","p","u","s","h"," ","-","u"," ","o","r","i","g","i","n"," ","&","l","t",";","b","r","a","n","c","h","-","n","a","m","e","&","g","t",";">>, <<"P","u","s","h"," ","a","n","d"," ","s","e","t"," ","u","p","s","t","r","e","a","m"," ","b","r","a","n","c","h">>>>),
       Row(<<<<"g","i","t"," ","p","u","s","h"," ","-","-","f","o","r","c","e">>, <<"U+26A0","U+FE0F"," ","F","o","r","c","e"," ","p","u","s","h"," ","(","d","a","n","g","e","r","o","u","s",")">>>>),
       Row(<<<<"g","i","t"," ","p","u","s","h"," ","-","-","f","o","r","c","e","-","w","i","t","h","-","l","e","a","s","e">>, <<"S","a","f","e","r"," ","f","o","r","c","e"," ","p","u","s","h">>>>)
    >>

\* GitCheatSheetPDF.add_inspection_commands: the rows of "Inspection & Comparison".
add_inspection_commands ==
    <<
       Row(<<<<"g","i","t"," ","d","i","f","f">>, <<"S","h","o","w"," ","u","n","s","t","a","g","e","d"," ","c","h","a","n","g","e","s">>>>),
       Row(<<<<"g","i","t"," ","d","i","f","f"," ","-","-","s","t","a","g","e","d">>, <<"S","h","o","w"," ","s","t","a","g","e","d"," ","c","h","a","n","g","e","s">>>>),
       Row(<<<<"g","i","t"," ","d","i","f","f"," ","&","l","t",";","b","r","a","n","c","h","-","n","a","m","e","&","g","t",";">>, <<"C","o","m","p","a","r","e"," ","w","i","t","h"," ","a","n","o","t","h","e","r"," ","b","r","a","n","c","h">>>>),
       Row(<<<<"g","i","t"," ","d","i","f","f"," ","H","E","A","D","~","1">>, <<"C","o","m","p","a","r","e"," ","w","i","t","h"," ","p","r","e","v","i","o","u","s"," ","c","o","m","m","i","t">>>>),
       Row(<<<<"g","i","t"," ","s","h","o","w"," ","&","l","t",";","c","o","m","m","i","t","-","i","d","&","g","t",";">>, <<"S","h","o","w"," ","s","p","e","c","i","f","i","c"," ","c","o","m","m","i","t"," ","d","e","t","a","i","l","s">>>>),
       Row(<<<<"g","i","t"," ","b","l","a","m","e"," ","&","l","t",";","f","i","l","e","&","g","t",";">>, <<"S","h","o","w"," ","w","h","o"," ","c","h","a","n","g","e","d"," ","e","a","c","h"," ","l","i","n","e">>>>),
       Row(<<<<"g","i","t"," ","l","o","g"," ","-","-","f","o","l","l","o","w"," ","&","l","t",";","f","i","l","e","&","g","t",";">>, <<"S","h","o","w"," ","f","i","l","e"," ","h","i","s","t","o","r","y"," ","a","c","r","o","s","s"," ","r","e","n","a","m","e","s">>>>),
       Row(<<<<"g","i","t"," ","l","o","g"," ","-","-","g","r","e","p","=","'","&","l","t",";","p","a","t","t","e","r","n","&","g","t",";","'">>, <<"S","e","a","r","c","h"," ","c","o","m","m","i","t","s"," ","b","y"," ","m","e","s","s","a","g","e">>>>),
       Row(<<<<"g","i","t"," ","l","o","g"," ","-","-","a","u","t","h","o","r","=","'","&","l","t",";","n","a","m","e","&","g","t",";","'">>, <<"F","i","l","t","e","r"," ","c","o","m","m","i","t","s"," ","b","y"," ","a","u","t","h","o","r">>>>),
       Row(<<<<"g","i","t"," ","r","e","f","l","o","g">>, <<"S","h","o","w"," ","r","e","f","e","r","e","n","c","e"," ","l","o","g"," ","(","r","e","c","o","v","e","r","y"," ","t","o","o","l",")">>>>)
    >>

\* GitCheatSheetPDF.add_undoing_commands: the rows of "Undoing Changes".
add_undoing_commands ==
    <<
       Row(<<<<"g","i","t"," ","c","h","e","c","k","o","u","t"," ","-","-"," ","&","l","t",";","f","i","l","e","&","g","t",";">>, <<"D","i","s","c","a","r","d"," ","c","h","a","n","g","e","s"," ","i","n"," ","w","o","r","k","i","n","g"," ","d","i","r","e","c","t","o","r","y">>>>),
       Row(<<<<"g","i","t"," ","r","e","s","t","o","r","e"," ","&","l","t",";","f","i","l","e","&","g","t",";">>, <<"D","i","s","c","a","r","d"," ","c","h","a","n","g","e","s"," ","(","G","i","t"," ","2",".","2","3","+",")">>>>),
       Row(<<<<"g","i","t"," ","r","e","s","e","t"," ","&","l","t",";","f","i","l","e","&","g","t",";">>, <<"U","n","s","t","a","g","e"," ","f","i","l","e"," ","(","k","e","e","p"," ","c","h","a","n","g","e","s"," ","i","n"," ","w","o","r","k","i","n","g"," ","d","i","r","e","c","t","o","r","y",")">>>>),
       Row(<<<<"g","i","t"," ","r","e","s","e","t"," ","-","-","s","o","f","t"," ","H","E","A","D","~","1">>, <<"R","e","s","e","t","s"," ","t","o"," ","o","n","e"," ","c","o","m","m","i","t"," ","b","e","f","o","r","e"," ","H","E","A","D"," ","(","t","h","e"," ","i","m","m","e","d","i","a","t","e"," ","p","r","e","v","i","o","u","s"," ","c","o","m","m","i","t",")","."," ","H","E","A","D","~","1"," ","m","e","a","n","s"," ","'","p","a","r","e","n","t"," ","o","f"," ","H","E","A","D","'">>>>),
       Row(<<<<"g","i","t"," ","r","e","s","e","t"," ","-","-","s","o","f","t"," ","&","l","t",";","c","o","m","m","i","t","-","i","d","&","g","t",";">>, <<"R","e","s","e","t","s"," ","t","o"," ","a"," ","s","p","e","c","i","f","i","c"," ","c","o","m","m","i","t"," ","h","a","s","h"," ","y","o","u"," ","p","r","o","v","i","d","e","."," ","Y","o","u"," ","c","a","n"," ","r","e","s","e","t"," ","t","o"," ","a","n","y"," ","c","o","m","m","i","t"," ","i","n"," ","h","i","s","t","o","r","y">>>>),
       Row(<<<<"g","i","t"," ","r","e","s","e","t"," ","-","-","m","i","x","e","d"," ","H","E","A","D","~","1">>, <<"R","e","s","e","t","s"," ","t","o"," ","o","n","e"," ","c","o","m","m","i","t"," ","b","e","f","o","r","e"," ","H","E","A","D",","," ","u","n","s","t","a","g","i","n","g"," ","c","h","a","n","g","e","s"," ","b","u","t"," ","k","e","e","p","i","n","g"," ","t","h","e","m"," ","i","n"," ","w","o","r","k","i","n","g"," ","d","i","r","e","c","t","o","r","y">>>>),
       Row(<<<<"g","i","t"," ","r","e","s","e","t"," ","-","-","m","i","x","e","d"," ","&","l","t",";","c","o","m","m","i","t","-","i","d","&","g","t",";">>, <<"R","e","s","e","t","s"," ","t","o"," ","a"," ","s","p","e","c","i","f","i","c"," ","c","o","m","m","i","t"," ","h","a","s","h",","," ","u","n","s","t","a","g","i","n","g"," ","c","h","a","n","g","e","s"," ","b","u","t"," ","k","e","e","p","i","n","g"," ","t","h","e","m"," ","i","n"," ","w","o","r","k","i","n","g"," ","d","i","r","e","c","t","o","r","y">>>>),
       Row(<<<<"g","i","t"," ","r","e","s","e","t"," ","-","-","h","a","r","d"," ","H","E","A","D","~","1">>, <<"U+26A0","U+FE0F"," ","R","e","s","e","t","s"," ","t","o"," ","o","n","e"," ","c","o","m","m","i","t"," ","b","e","f","o","r","e"," ","H","E","A","D"," ","a","n","d"," ","p","e","r","m","a","n","e","n","t","l","y"," ","d","e","l","e","t","e","s"," ","a","l","l"," ","u","n","c","o","m","m","i","t","t","e","d"," ","c","h","a","n","g","e","s">>>>),
       Row(<<<<"g","i","t"," ","r","e","s","e","t"," ","-","-","h","a","r","d"," ","&","l","t",";","c","o","m","m","i","t","-","i","d","&","g","t",";">>, <<"U+26A0","U+FE0F"," ","R","e","s","e","t","s"," ","t","o"," ","a"," ","s","p","e","c","i","f","i","c"," ","c","o","m","m","i","t"," ","h","a","s","h"," ","a","n","d"," ","p","e","r","m","a","n","e","n","t","l","y"," ","d","e","l","e","t","e","s"," ","a","l","l"," ","u","n","c","o","m","m","i","t","t","e","d"," ","c","h","a","n","g","e","s">>>>),
       Row(<<<<"g","i","t"," ","r","e","v","e","r","t"," ","&","l","t",";","c","o","m","m","i","t","-","i","d","&","g","t",";">>, <<"C","r","e","a","t","e"," ","c","o","m","m","i","t"," ","t","h","a","t"," ","u","n","d","o","e","s"," ","s","p","e","c","i","f","i","e","d"," ","c","o","m","m","i","t">>>>),
       Row(<<<<"g","i","t"," ","c","l","e","a","n"," ","-","n">>, <<"P","r","e","v","i","e","w"," ","u","n","t","r","a","c","k","e","d"," ","f","i","l","e","s"," ","t","o"," ","d","e","l","e","t","e">>>>),
       Row(<<<<"g","i","t"," ","c","l","e","a","n"," ","-","f">>, <<"D","e","l","e","t","e"," ","u","n","t","r","a","c","k","e","d"," ","f","i","l","e","s">>>>),
       Row(<<<<"g","i","t"," ","c","l","e","a","n"," ","-","f","d">>, <<"U+26A0","U+FE0F"," ","D","e","l","e","t","e"," ","u","n","t","r","a","c","k","e","d"," ","f","i","l","e","s"," ","a","n","d"," ","d","i","r","e","c","t","o","r","i","e","s">>>>)
    >>

\* GitCheatSheetPDF.add_stashing_commands: the rows of "Stashing".
add_stashing_commands ==
    <<
       Row(<<<<"g","i","t"," ","s","t","a","s","h">>, <<"S","t","a","s","h"," ","c","u","r","r","e","n","t"," ","c","h","a","n","g","e","s">>>>),
       Row(<<<<"g","i","t"," ","s","t","a","s","h"," ","s","a","v","e"," ","'","&","l","t",";","m","e","s","s","a","g","e","&","g","t",";","'">>, <<"S","t","a","s","h"," ","w","i","t","h"," ","m","e","s","s","a","g","e">>>>),
       Row(<<<<"g","i","t"," ","s","t","a","s","h"," ","l","i","s","t">>, <<"L","i","s","t"," ","a","l","l"," ","s","t","a","s","h","e","s">>>>),
       Row(<<<<"g","i","t"," ","s","t","a","s","h"," ","s","h","o","w">>, <<"S","h","o","w"," ","l","a","t","e","s","t"," ","s","t","a","s","h"," ","c","h","a","n","g","e","s">>>>),
       Row(<<<<"g","i","t"," ","s","t","a","s","h"," ","s","h","o","w"," ","-","p">>, <<"S","h","o","w"," ","l","a","t","e","s","t"," ","s","t","a","s","h"," ","a","s"," ","p","a","t","c","h">>>>),
       Row(<<<<"g","i","t"," ","s","t","a","s","h"," ","a","p","p","l","y">>, <<"A","p","p","l","y"," ","l","a","t","e","s","t"," ","s","t","a","s","h">>>>),
       Row(<<<<"g","i","t"," ","s","t","a","s","h"," ","a","p","p","l","y"," ","s","t","a","s","h","@","{","&","l","t",";","i","n","d","e","x","&","g","t",";","}">>, <<"A","p","p","l","y"," ","s","p","e","c","i","f","i","c"," ","s","t","a","s","h">>>>),
       Row(<<<<"g","i","t"," ","s","t","a","s","h"," ","p","o","p">>, <<"A","p","p","l","y"," ","a","n","d"," ","r","e","m","o","v","e"," ","l","a","t","e","s","t"," ","s","t","a","s","h">>>>),
       Row(<<<<"g","i","t"," ","s","t","a","s","h"," ","d","r","o","p">>, <<"D","e","l","e","t","e"," ","l","a","t","e","s","t"," ","s","t","a","s","h">>>>),
       Row(<<<<"g","i","t"," ","s","t","a","s","h"," ","c","l","e","a","r">>, <<"D","e","l","e","t","e"," ","a","l","l"," ","s","t","a","s","h","e","s">>>>)
    >>

\* GitCheatSheetPDF.add_advanced_commands: the rows of "Advanced Commands".
add_advanced_commands ==
    <<
       Row(<<<<"g","i","t"," ","t","a","g">>, <<"L","i","s","t"," ","t","a","g","s">>>>),
       Row(<<<<"g","i","t"," ","t","a","g"," ","&","l","t",";","t","a","g","-","n","a","m","e","&","g","t",";">>, <<"C","r","e","a","t","e"," ","l","i","g","h","t","w","e","i","g","h","t"," ","t","a","g">>>>),
       Row(<<<<"g","i","t"," ","t","a","g"," ","-","a"," ","&","l","t",";","t","a","g","-","n","a","m","e","&","g","t",";"," ","-","m"," ","'","&","l","t",";","m","e","s","s","a","g","e","&","g","t",";","'">>, <<"C","r","e","a","t","e"," ","a","n","n","o","t","a","t","e","d"," ","t","a","g">>>>),
       Row(<<<<"g","i","t"," ","t","a","g"," ","-","d"," ","&","l","t",";","t","a","g","-","n","a","m","e","&","g","t",";">>, <<"D","e","l","e","t","e"," ","t","a","g">>>>),
       Row(<<<<"g","i","t"," ","c","h","e","r","r","y","-","p","i","c","k"," ","&","l","t",";","c","o","m","m","i","t","-","i","d","&","g","t",";">>, <<"A","p","p","l","y"," ","s","p","e","c","i","f","i","c"," ","c","o","m","m","i","t"," ","t","o"," ","c","u","r","r","e","n","t"," ","b","r","a","n","c","h">>>>),
       Row(<<<<"g","i","t"," ","b","i","s","e","c","t"," ","s","t","a","r","t">>, <<"S","t","a","r","t"," ","b","i","n","a","r","y"," ","s","e","a","r","c","h"," ","f","o","r"," ","b","u","g">>>>),
       Row(<<<<"g","i","t"," ","s","u","b","m","o","d","u","l","e"," ","a","d","d"," ","&","l","t",";","u","r","l","&","g","t",";">>, <<"A","d","d"," ","G","i","t"," ","s","u","b","m","o","d","u","l","e">>>>),
       Row(<<<<"g","i","t"," ","s","u","b","m","o","d","u","l","e"," ","u","p","d","a","t","e"," ","-","-","i","n","i","t">>, <<"I","n","i","t","i","a","l","i","z","e"," ","a","n","d"," ","u","p","d","a","t","e"," ","s","u","b","m","o","d","u","l","e","s">>>>),
       Row(<<<<"g","i","t"," ","a","r","c","h","i","v","e"," ","-","-","f","o","r","m","a","t","=","z","i","p"," ","H","E","A","D">>, <<"C","r","e","a","t","e"," ","a","r","c","h","i","v","e"," ","o","f"," ","c","u","r","r","e","n","t"," ","H","E","A","D">>>>),
       Row(<<<<"g","i","t"," ","g","c">>, <<"C","l","e","a","n","u","p"," ","u","n","n","e","c","e","s","s","a","r","y"," ","f","i","l","e","s">>>>),
       Row(<<<<"g","i","t"," ","f","s","c","k">>, <<"C","h","e","c","k"," ","r","e","p","o","s","i","t","o","r","y"," ","i","n","t","e","g","r","i","t","y">>>>)
    >>

\* GitCheatSheetPDF.add_configuration_commands: the rows of "Configuration".
add_configuration_commands ==
    <<
       Row(<<<<"g","i","t"," ","c","o","n","f","i","g"," ","-","-","g","l","o","b","a","l"," ","u","s","e","r",".","n","a","m","e"," ","'","&","l","t",";","n","a","m","e","&","g","t",";","'">>, <<"S","e","t"," ","g","l","o","b","a","l"," ","u","s","e","r","n","a","m","e">>>>),
       Row(<<<<"g","i","t"," ","c","o","n","f","i","g"," ","-","-","g","l","o","b","a","l"," ","u","s","e","r",".","e","m","a","i","l"," ","'","&","l","t",";","e","m","a","i","l","&","g","t",";","'">>, <<"S","e","t"," ","g","l","o","b","a","l"," ","e","m","a","i","l">>>>),
       Row(<<<<"g","i","t"," ","c","o","n","f","i","g"," ","-","-","l","i","s","t">>, <<"S","h","o","w"," ","a","l","l"," ","c","o","n","f","i","g","u","r","a","t","i","o","n">>>>),
       Row(<<<<"g","i","t"," ","c","o","n","f","i","g"," ","u","s","e","r",".","n","a","m","e">>, <<"S","h","o","w"," ","u","s","e","r","n","a","m","e">>>>),
       Row(<<<<"g","i","t"," ","c","o","n","f","i","g"," ","-","-","g","l","o","b","a","l"," ","i","n","i","t",".","d","e","f","a","u","l","t","B","r","a","n","c","h"," ","m","a","i","n">>, <<"S","e","t"," ","d","e","f","a","u","l","t"," ","b","r","a","n","c","h"," ","n","a","m","e">>>>),
       Row(<<<<"g","i","t"," ","c","o","n","f","i","g"," ","-","-","g","l","o","b","a","l"," ","c","o","r","e",".","e","d","i","t","o","r"," ","&","l","t",";","e","d","i","t","o","r","&","g","t",";">>, <<"S","e","t"," ","d","e","f","a","u","l","t"," ","e","d","i","t","o","r">>>>),
       Row(<<<<"g","i","t"," ","c","o","n","f","i","g"," ","-","-","g","l","o","b","a","l"," ","a","l","i","a","s",".","&","l","t",";","a","l","i","a","s","&","g","t",";"," ","&","l","t",";","c","o","m","m","a","n","d","&","g","t",";">>, <<"C","r","e","a","t","e"," ","a","l","i","a","s"," ","f","o","r"," ","c","o","m","m","a","n","d">>>>),
       Row(<<<<"g","i","t"," ","c","o","n","f","i","g"," ","-","-","g","l","o","b","a","l"," ","c","o","r","e",".","a","u","t","o","c","r","l","f"," ","t","r","u","e">>, <<"A","u","t","o"," ","c","o","n","v","e","r","t"," ","l","i","n","e"," ","e","n","d","i","n","g","s"," ","(","W","i","n","d","o","w","s",")">>>>),
       Row(<<<<"g","i","t"," ","c","o","n","f","i","g"," ","-","-","g","l","o","b","a","l"," ","c","o","r","e",".","a","u","t","o","c","r","l","f"," ","i","n","p","u","t">>, <<"A","u","t","o"," ","c","o","n","v","e","r","t"," ","l","i","n","e"," ","e","n","d","i","n","g","s"," ","(","M","a","c","/","L","i","n","u","x",")">>>>),
       Row(<<<<"g","i","t"," ","c","o","n","f","i","g"," ","-","-","g","l","o","b","a","l"," ","p","u","l","l",".","r","e","b","a","s","e"," ","f","a","l","s","e">>, <<"D","e","f","a","u","l","t"," ","m","e","r","g","e"," ","b","e","h","a","v","i","o","r"," ","f","o","r"," ","p","u","l","l">>>>)
    >>

\* LaravelCheatSheetPDF.add_installation_commands: the rows of "Installation & Setup".
add_installation_commands ==
    <<
       Row(<<<<"c","o","m","p","o","s","e","r"," ","c","r","e","a","t","e","-","p","r","o","j","e","c","t"," ","l","a","r","a","v","e","l","/","l","a","r","a","v","e","l"," ","a","p","p","-","n","a","m","e">>, <<"C","r","e","a","t","e"," ","n","e","w"," ","L","a","r","a","v","e","l"," ","p","r","o","j","e","c","t">>, <<"#","3","4","9","8","D","B">>>>),
       Row(<<<<"c","o","m","p","o","s","e","r"," ","g","l","o","b","a","l"," ","r","e","q","u","i","r","e"," ","l","a","r","a","v","e","l","/","i","n","s","t","a","l","l","e","r">>, <<"I","n","s","t","a","l","l"," ","L","a","r","a","v","e","l"," ","i","n","s","t","a","l","l","e","r"," ","g","l","o","b","a","l","l","y">>, <<"#","E","7","4","C","3","C">>>>),
       Row(<<<<"l","a","r","a","v","e","l"," ","n","e","w"," ","a","p","p","-","n","a","m","e">>, <<"C","r","e","a","t","e"," ","n","e","w"," ","L","a","r","a","v","e","l"," ","p","r","o","j","e","c","t"," ","u","s","i","n","g"," ","i","n","s","t","a","l","l","e","r">>, <<"#","3","4","9","8","D","B">>>>),
       Row(<<<<"l","a","r","a","v","e","l"," ","n","e","w"," ","a","p","p","-","n","a","m","e"," ","-","-","g","i","t">>, <<"C","r","e","a","t","e"," ","n","e","w"," ","p","r","o","j","e","c","t"," ","w","i","t","h"," ","g","i","t"," ","r","e","p","o">>, <<"#","2","7","A","E","6","0">>>>),
       Row(<<<<"l","a","r","a","v","e","l"," ","n","e","w"," ","a","p","p","-","n","a","m","e"," ","-","-","d","a","t","a","b","a","s","e","=","m","y","s","q","l">>, <<"C","r","e","a","t","e"," ","p","r","o","j","e","c","t"," ","w","i","t","h"," ","s","p","e","c","i","f","i","c"," ","d","a","t","a","b","a","s","e">>, <<"#","2","7","A","E","6","0">>>>),
       Row(<<<<"p","h","p"," ","a","r","t","i","s","a","n"," ","s","e","r","v","e">>, <<"S","t","a","r","t"," ","d","e","v","e","l","o","p","m","e","n","t"," ","s","e","r","v","e","r">>, <<"#","3","4","9","8","D","B">>>>),
       Row(<<<<"p","h","p"," ","a","r","t","i","s","a","n"," ","s","e","r","v","e"," ","-","-","h","o","s","t","=","0",".","0",".","0",".","0"," ","-","-","p","o","r","t","=","8","0","8","0">>, <<"S","t","a","r","t"," ","s","e","r","v","e","r"," ","w","i","t","h"," ","c","u","s","t","o","m"," ","h","o","s","t","/","p","o","r","t">>, <<"#","3","4","9","8","D","B">>>>),
       Row(<<<<"p","h","p"," ","a","r","t","i","s","a","n"," ","-","-","v","e","r","s","i","o","n">>, <<"C","h","e","c","k"," ","L","a","r","a","v","e","l"," ","v","e","r","s","i","o","n">>, <<"#","3","4","9","8","D","B">>>>),
       Row(<<<<"c","o","m","p","o","s","e","r"," ","u","p","d","a","t","e">>, <<"U","p","d","a","t","e"," ","L","a","r","a","v","e","l"," ","d","e","p","e","n","d","e","n","c","i","e","s">>, <<"#","3","4","9","8","D","B">>>>),
       Row(<<<<"c","o","m","p","o","s","e","r"," ","i","n","s","t","a","l","l">>, <<"I","n","s","t","a","l","l"," ","p","r","o","j","e","c","t"," ","d","e","p","e","n","d","e","n","c","i","e","s">>, <<"#","3","4","9","8","D","B">>>>),
       Row(<<<<"c","o","m","p","o","s","e","r"," ","i","n","s","t","a","l","l"," ","-","-","n","o","-","d","e","v"," ","-","-","o","p","t","i","m","i","z","e","-","a","u","t","o","l","o","a","d","e","r">>, <<"P","r","o","d","u","c","t","i","o","n"," ","i","n","s","t","a","l","l">>, <<"#","3","4","9","8","D","B">>>>),
       Row(<<<<"n","p","m"," ","i","n","s","t","a","l","l">>, <<"I","n","s","t","a","l","l"," ","N","o","d","e",".","j","s"," ","d","e","p","e","n","d","e","n","c","i","e","s">>, <<"#","3","4","9","8","D","B">>>>),
       Row(<<<<"n","p","m"," ","r","u","n"," ","d","e","v">>, <<"C","o","m","p","i","l","e"," ","a","s","s","e","t","s"," ","f","o","r"," ","d","e","v","e","l","o","p","m","e","n","t">>, <<"#","3","4","9","8","D","B">>>>),
       Row(<<<<"n","p","m"," ","r","u","n"," ","b","u","i","l","d">>, <<"C","o","m","p","i","l","e"," ","a","s","s","e","t","s"," ","f","o","r"," ","p","r","o","d","u","c","t","i","o","n">>, <<"#","3","4","9","8","D","B">>>>),
       Row(<<<<"n","p","m"," ","r","u","n"," ","w","a","t","c","h">>, <<"W","a","t","c","h"," ","a","n","d"," ","r","e","c","o","m","p","i","l","e"," ","a","s","s","e","t","s">>, <<"#","3","4","9","8","D","B">>>>)
    >>

\* LaravelCheatSheetPDF.add_artisan_commands: the rows of "Artisan Commands".
add_artisan_commands ==
    <<
       Row(<<<<"p","h","p"," ","a","r","t","i","s","a","n"," ","l","i","s","t">>, <<"L","i","s","t"," ","a","l","l"," ","a","v","a","i","l","a","b","l","e"," ","c","o","m","m","a","n","d","s">>, <<"#","3","4","9","8","D","B">>>>),
       Row(<<<<"p","h","p"," ","a","r","t","i","s","a","n"," ","h","e","l","p"," ","<","c","o","m","m","a","n","d",">">>, <<"G","e","t"," ","h","e","l","p"," ","f","o","r"," ","s","p","e","c","i","f","i","c"," ","c","o","m","m","a","n","d">>, <<"#","3","4","9","8","D","B">>>>),
       Row(<<<<"p","h","p"," ","a","r","t","i","s","a","n"," ","m","a","k","e",":","m","o","d","e","l"," ","<","n","a","m","e",">">>, <<"C","r","e","a","t","e"," ","n","e","w"," ","m","o","d","e","l">>, <<"#","3","4","9","8","D","B">>>>),
       Row(<<<<"p","h","p"," ","a","r","t","i","s","a","n"," ","m","a","k","e",":","m","o","d","e","l"," ","<","n","a","m","e",">"," ","-","m">>, <<"C","r","e","a","t","e"," ","m","o","d","e","l"," ","w","i","t","h"," ","m","i","g","r","a","t","i","o","n">>, <<"#","3","4","9","8","D","B">>>>),
       Row(<<<<"p","h","p"," ","a","r","t","i","s","a","n"," ","m","a","k","e",":","m","o","d","e","l"," ","<","n","a","m","e",">"," ","-","m","r","c">>, <<"C","r","e","a","t","e"," ","m","o","d","e","l",","," ","m","i","g","r","a","t","i","o","n",","," ","r","e","s","o","u","r","c","e"," ","c","o","n","t","r","o","l","l","e","r">>, <<"#","3","4","9","8","D","B">>>>),
       Row(<<<<"p","h","p"," ","a","r","t","i","s","a","n"," ","m","a","k","e",":","m","o","d","e","l"," ","<","n","a","m","e",">"," ","-","a">>, <<"C","r","e","a","t","e"," ","m","o","d","e","l"," ","w","i","t","h"," ","a","l","l"," ","(","m","i","g","r","a","t","i","o","n",","," ","f","a","c","t","o","r","y",","," ","s","e","e","d","e","r",","," ","p","o","l","i","c","y",","," ","c","o","n","t","r","o","l","l","e","r",","," ","f","o","r","m"," ","r","e","q","u","e","s","t","s",")">>, <<"#","E","7","4","C","3","C">>>>),
       Row(<<<<"p","h","p"," ","a","r","t","i","s","a","n"," ","m","a","k","e",":","c","o","n","t","r","o","l","l","e","r"," ","<","n","a","m","e",">">>, <<"C","r","e","a","t","e"," ","n","e","w"," ","c","o","n","t","r","o","l","l","e","r">>, <<"#","3","4","9","8","D","B">>>>),
       Row(<<<<"p","h","p"," ","a","r","t","i","s","a","n"," ","m","a","k","e",":","c","o","n","t","r","o","l","l","e","r"," ","<","n","a","m","e",">"," ","-","-","r","e","s","o","u","r","c","e">>, <<"C","r","e","a","t","e"," ","r","e","s","o","u","r","c","e"," ","c","o","n","t","r","o","l","l","e","r">>, <<"#","3","4","9","8","D","B">>>>),
       Row(<<<<"p","h","p"," ","a","r","t","i","s","a","n"," ","m","a","k","e",":","c","o","n","t","r","o","l","l","e","r"," ","<","n","a","m","e",">"," ","-","-","a","p","i">>, <<"C","r","e","a","t","e"," ","A","P","I"," ","r","e","s","o","u","r","c","e"," ","c","o","n","t","r","o","l","l","e","r">>, <<"#","3","4","9","8","D","B">>>>),
       Row(<<<<"p","h","p"," ","a","r","t","i","s","a","n"," ","m","a","k","e",":","c","o","n","t","r","o","l","l","e","r"," ","<","n","a","m","e",">"," ","-","-","i","n","v","o","k","a","b","l","e">>, <<"C","r","e","a","t","e"," ","s","i","n","g","l","e"," ","a","c","t","i","o","n"," ","c","o","n","t","r","o","l","l","e","r">>, <<"#","E","7","4","C","3","C">>>>),
       Row(<<<<"p","h","p"," ","a","r","t","i","s","a","n"," ","m","a","k","e",":","m","i","g","r","a","t","i","o","n"," ","<","n","a","m","e",">">>, <<"C","r","e","a","t","e"," ","n","e","w"," ","m","i","g","r","a","t","i","o","n">>, <<"#","3","4","9","8","D","B">>>>),
       Row(<<<<"p","h","p"," ","a","r","t","i","s","a","n"," ","m","a","k","e",":","m","i","g","r","a","t","i","o","n"," ","c","r","e","a","t","e","_","u","s","e","r","s","_","t","a","b","l","e">>, <<"C","r","e","a","t","e"," ","m","i","g","r","a","t","i","o","n"," ","w","i","t","h"," ","s","p","e","c","i","f","i","c"," ","n","a","m","e">>, <<"#","3","4","9","8","D","B">>>>),
       Row(<<<<"p","h","p"," ","a","r","t","i","s","a","n"," ","m","a","k","e",":","m","i","g","r","a","t","i","o","n"," ","a","d","d","_","c","o","l","u","m","n","_","t","o","_","t","a","b","l","e"," ","-","-","t","a","b","l","e","=","u","s","e","r","s">>, <<"A","d","d"," ","c","o","l","u","m","n"," ","t","o"," ","e","x","i","s","t","i","n","g"," ","t","a","b","l","e">>, <<"#","3","4","9","8","D","B">>>>),
       Row(<<<<"p","h","p"," ","a","r","t","i","s","a","n"," ","m","a","k","e",":","s","e","e","d","e","r"," ","<","n","a","m","e",">">>, <<"C","r","e","a","t","e"," ","n","e","w"," ","s","e","e","d","e","r">>, <<"#","3","4","9","8","D","B">>>>),
       Row(<<<<"p","h","p"," ","a","r","t","i","s","a","n"," ","m","a","k","e",":","s","e","e","d","e","r"," ","U","s","e","r","S","e","e","d","e","r">>, <<"C","r","e","a","t","e"," ","s","p","e","c","i","f","i","c"," ","s","e","e","d","e","r">>, <<"#","3","4","9","8","D","B">>>>),
       Row(<<<<"p","h","p"," ","a","r","t","i","s","a","n"," ","m","a","k","e",":","f","a","c","t","o","r","y"," ","<","n","a","m","e",">">>, <<"C","r","e","a","t","e"," ","n","e","w"," ","f","a","c","t","o","r","y">>, <<"#","3","4","9","8","D","B">>>>),
       Row(<<<<"p","h","p"," ","a","r","t","i","s","a","n"," ","m","a","k","e",":","f","a","c","t","o","r","y"," ","U","s","e","r","F","a","c","t","o","r","y"," ","-","-","m","o","d","e","l","=","U","s","e","r">>, <<"C","r","e","a","t","e"," ","f","a","c","t","o","r","y"," ","f","o","r"," ","s","p","e","c","i","f","i","c"," ","m","o","d","e","l">>, <<"#","3","4","9","8","D","B">>>>),
       Row(<<<<"p","h","p"," ","a","r","t","i","s","a","n"," ","m","a","k","e",":","r","e","q","u","e","s","t"," ","<","n","a","m","e",">">>, <<"C","r","e","a","t","e"," ","n","e","w"," ","f","o","r","m"," ","r","e","q","u","e","s","t">>, <<"#","3","4","9","8","D","B">>>>),
       Row(<<<<"p","h","p"," ","a","r","t","i","s","a","n"," ","m","a","k","e",":","r","e","q","u","e","s","t"," ","S","t","o","r","e","U","s","e","r","R","e","q","u","e","s","t">>, <<"C","r","e","a","t","e"," ","s","p","e","c","i","f","i","c"," ","f","o","r","m"," ","r","e","q","u","e","s","t">>, <<"#","3","4","9","8","D","B">>>>),
       Row(<<<<"p","h","p"," ","a","r","t","i","s","a","n"," ","m","a","k","e",":","m","i","d","d","l","e","w","a","r","e"," ","<","n","a","m","e",">">>, <<"C","r","e","a","t","e"," ","n","e","w"," ","m","i","d","d","l","e","w","a","r","e">>, <<"#","3","4","9","8","D","B">>>>),
       Row(<<<<"p","h","p"," ","a","r","t","i","s","a","n"," ","m","a","k","e",":","m","i","d","d","l","e","w","a","r","e"," ","C","h","e","c","k","A","g","e">>, <<"C","r","e","a","t","e"," ","s","p","e","c","i","f","i","c"," ","m","i","d","d","l","e","w","a","r","e">>, <<"#","3","4","9","8","D","B">>>>),
       Row(<<<<"p","h","p"," ","a","r","t","i","s","a","n"," ","m","a","k","e",":","p","o","l","i","c","y"," ","<","n","a","m","e",">">>, <<"C","r","e","a","t","e"," ","n","e","w"," ","p","o","l","i","c","y">>, <<"#","3","4","9","8","D","B">>>>),
       Row(<<<<"p","h","p"," ","a","r","t","i","s","a","n"," ","m","a","k","e",":","p","o","l","i","c","y"," ","U","s","e","r","P","o","l","i","c","y"," ","-","-","m","o","d","e","l","=","U","s","e","r">>, <<"C","r","e","a","t","e"," ","p","o","l","i","c","y"," ","f","o","r"," ","s","p","e","c","i","f","i","c"," ","m","o","d","e","l">>, <<"#","3","4","9","8","D","B">>>>),
       Row(<<<<"p","h","p"," ","a","r","t","i","s","a","n"," ","m","a","k","e",":","e","v","e","n","t"," ","<","n","a","m","e",">">>, <<"C","r","e","a","t","e"," ","n","e","w"," ","e","v","e","n","t">>, <<"#","E","7","4","C","3","C">>>>),
       Row(<<<<"p","h","p"," ","a","r","t","i","s","a","n"," ","m","a","k","e",":","l","i","s","t","e","n","e","r"," ","<","n","a","m","e",">">>, <<"C","r","e","a","t","e"," ","n","e","w"," ","l","i","s","t","e","n","e","r">>, <<"#","E","7","4","C","3","C">>>>),
       Row(<<<<"p","h","p"," ","a","r","t","i","s","a","n"," ","m","a","k","e",":","l","i","s","t","e","n","e","r"," ","S","e","n","d","W","e","l","c","o","m","e","E","m","a","i","l"," ","-","-","e","v","e","n","t","=","U","s","e","r","R","e","g","i","s","t","e","r","e","d">>, <<"C","r","e","a","t","e"," ","l","i","s","t","e","n","e","r"," ","f","o","r"," ","s","p","e","c","i","f","i","c"," ","e","v","e","n","t">>, <<"#","E","7","4","C","3","C">>>>),
       Row(<<<<"p","h","p"," ","a","r","t","i","s","a","n"," ","m","a","k","e",":","j","o","b"," ","<","n","a","m","e",">">>, <<"C","r","e","a","t","e"," ","n","e","w"," ","j","o","b">>, <<"#","3","4","9","8","D","B">>>>),
       Row(<<<<"p","h","p"," ","a","r","t","i","s","a","n"," ","m","a","k","e",":","j","o","b"," ","P","r","o","c","e","s","s","P","a","y","m","e","n","t">>, <<"C","r","e","a","t","e"," ","s","p","e","c","i","f","i","c"," ","j","o","b">>, <<"#","3","4","9","8","D","B">>>>),
       Row(<<<<"p","h","p"," ","a","r","t","i","s","a","n"," ","m","a","k","e",":","m","a","i","l"," ","<","n","a","m","e",">">>, <<"C","r","e","a","t","e"," ","n","e","w"," ","m","a","i","l"," ","c","l","a","s","s">>, <<"#","3","4","9","8","D","B">>>>),
       Row(<<<<"p","h","p"," ","a","r","t","i","s","a","n"," ","m","a","k","e",":","m","a","i","l"," ","W","e","l","c","o","m","e","E","m","a","i","l"," ","-","-","m","a","r","k","d","o","w","n","=","e","m","a","i","l","s",".","w","e","l","c","o","m","e">>, <<"C","r","e","a","t","e"," ","m","a","i","l"," ","w","i","t","h"," ","m","a","r","k","d","o","w","n"," ","t","e","m","p","l","a","t","e">>, <<"#","3","4","9","8","D","B">>>>),
       Row(<<<<"p","h","p"," ","a","r","t","i","s","a","n"," ","m","a","k","e",":","n","o","t","i","f","i","c","a","t","i","o","n"," ","<","n","a","m","e",">">>, <<"C","r","e","a","t","e"," ","n","e","w"," ","n","o","t","i","f","i","c","a","t","i","o","n">>, <<"#","E","7","4","C","3","C">>>>),
       Row(<<<<"p","h","p"," ","a","r","t","i","s","a","n"," ","m","a","k","e",":","r","e","s","o","u","r","c","e"," ","<","n","a","m","e",">">>, <<"C","r","e","a","t","e"," ","n","e","w"," ","A","P","I"," ","r","e","s","o","u","r","c","e">>, <<"#","3","4","9","8","D","B">>>>),
       Row(<<<<"p","h","p"," ","a","r","t","i","s","a","n"," ","m","a","k","e",":","r","e","s","o","u","r","c","e"," ","U","s","e","r","R","e","s","o","u","r","c","e">>, <<"C","r","e","a","t","e"," ","s","p","e","c","i","f","i","c"," ","A","P","I"," ","r","e","s","o","u","r","c","e">>, <<"#","3","4","9","8","D","B">>>>),
       Row(<<<<"p","h","p"," ","a","r","t","i","s","a","n"," ","m","a","k","e",":","t","e","s","t"," ","<","n","a","m","e",">">>, <<"C","r","e","a","t","e"," ","n","e","w"," ","t","e","s","t">>, <<"#","3","4","9","8","D","B">>>>),
       Row(<<<<"p","h","p"," ","a","r","t","i","s","a","n"," ","m","a","k","e",":","t","e","s","t"," ","U","s","e","r","T","e","s","t"," ","-","-","u","n","i","t">>, <<"C","r","e","a","t","e"," ","u","n","i","t"," ","t","e","s","t">>, <<"#","3","4","9","8","D","B">>>>),
       Row(<<<<"p","h","p"," ","a","r","t","i","s","a","n"," ","m","a","k","e",":","t","e","s","t"," ","U","s","e","r","C","a","n","L","o","g","i","n","T","e","s","t"," ","-","-","f","e","a","t","u","r","e">>, <<"C","r","e","a","t","e"," ","f","e","a","t","u","r","e"," ","t","e","s","t">>, <<"#","3","4","9","8","D","B">>>>),
       Row(<<<<"p","h","p"," ","a","r","t","i","s","a","n"," ","m","a","k","e",":","c","o","m","m","a","n","d"," ","<","n","a","m","e",">">>, <<"C","r","e","a","t","e"," ","n","e","w"," ","a","r","t","i","s","a","n"," ","c","o","m","m","a","n","d">>, <<"#","E","7","4","C","3","C">>>>),
       Row(<<<<"p","h","p"," ","a","r","t","i","s","a","n"," ","m","a","k","e",":","p","r","o","v","i","d","e","r"," ","<","n","a","m","e",">">>, <<"C","r","e","a","t","e"," ","n","e","w"," ","s","e","r","v","i","c","e"," ","p","r","o","v","i","d","e","r">>, <<"#","E","7","4","C","3","C">>>>),
       Row(<<<<"p","h","p"," ","a","r","t","i","s","a","n"," ","m","a","k","e",":","r","u","l","e"," ","<","n","a","m","e",">">>, <<"C","r","e","a","t","e"," ","n","e","w"," ","v","a","l","i","d","a","t","i","o","n"," ","r","u","l","e">>, <<"#","E","7","4","C","3","C">>>>),
       Row(<<<<"p","h","p"," ","a","r","t","i","s","a","n"," ","m","a","k","e",":","c","a","s","t"," ","<","n","a","m","e",">">>, <<"C","r","e","a","t","e"," ","n","e","w"," ","c","u","s","t","o","m"," ","c","a","s","t">>, <<"#","E","7","4","C","3","C">>>>),
       Row(<<<<"p","h","p"," ","a","r","t","i","s","a","n"," ","m","a","k","e",":","c","o","m","p","o","n","e","n","t"," ","<","n","a","m","e",">">>, <<"C","r","e","a","t","e"," ","n","e","w"," ","B","l","a","d","e"," ","c","o","m","p","o","n","e","n","t">>, <<"#","3","4","9","8","D","B">>>>),
       Row(<<<<"p","h","p"," ","a","r","t","i","s","a","n"," ","m","a","k","e",":","o","b","s","e","r","v","e","r"," ","<","n","a","m","e",">">>, <<"C","r","e","a","t","e"," ","n","e","w"," ","m","o","d","e","l"," ","o","b","s","e","r","v","e","r">>, <<"#","E","7","4","C","3","C">>>>)
    >>

\* LaravelCheatSheetPDF.add_routing_commands: the rows of "Routing".
add_routing_commands ==
    <<
       Row(<<<<"R","o","u","t","e",":",":","g","e","t","(","'","/","u","r","i","'",","," ","[","C","o","n","t","r","o","l","l","e","r",":",":","c","l","a","s","s",","," ","'","m","e","t","h","o","d","'","]",")",";">>, <<"B","a","s","i","c"," ","G","E","T"," ","r","o","u","t","e">>, <<"#","3","4","9","8","D","B">>>>),
       Row(<<<<"R","o","u","t","e",":",":","p","o","s","t","(","'","/","u","r","i","'",","," ","[","C","o","n","t","r","o","l","l","e","r",":",":","c","l","a","s","s",","," ","'","m","e","t","h","o","d","'","]",")",";">>, <<"P","O","S","T"," ","r","o","u","t","e">>, <<"#","3","4","9","8","D","B">>>>),
       Row(<<<<"R","o","u","t","e",":",":","p","u","t","(","'","/","u","r","i","'",","," ","[","C","o","n","t","r","o","l","l","e","r",":",":","c","l","a","s","s",","," ","'","m","e","t","h","o","d","'","]",")",";">>, <<"P","U","T"," ","r","o","u","t","e">>, <<"#","3","4","9","8","D","B">>>>),
       Row(<<<<"R","o","u","t","e",":",":","p","a","t","c","h","(","'","/","u","r","i","'",","," ","[","C","o","n","t","r","o","l","l","e","r",":",":","c","l","a","s","s",","," ","'","m","e","t","h","o","d","'","]",")",";">>, <<"P","A","T","C","H"," ","r","o","u","t","e">>, <<"#","3","4","9","8","D","B">>>>),
       Row(<<<<"R","o","u","t","e",":",":","d","e","l","e","t","e","(","'","/","u","r","i","'",","," ","[","C","o","n","t","r","o","l","l","e","r",":",":","c","l","a","s","s",","," ","'","m","e","t","h","o","d","'","]",")",";">>, <<"D","E","L","E","T","E"," ","r","o","u","t","e">>, <<"#","3","4","9","8","D","B">>>>),
       Row(<<<<"R","o","u","t","e",":",":","a","n","y","(","'","/","u","r","i","'",","," ","[","C","o","n","t","r","o","l","l","e","r",":",":","c","l","a","s","s",","," ","'","m","e","t","h","o","d","'","]",")",";">>, <<"R","o","u","t","e"," ","t","h","a","t"," ","r","e","s","p","o","n","d","s"," ","t","o"," ","a","n","y"," ","H","T","T","P"," ","v","e","r","b">>, <<"#","E","7","4","C","3","C">>>>),
       Row(<<<<"R","o","u","t","e",":",":","m","a","t","c","h","(","[","'","g","e","t","'",","," ","'","p","o","s","t","'","]",","," ","'","/","u","r","i","'",","," ","[","C","o","n","t","r","o","l","l","e","r",":",":","c","l","a","s","s",","," ","'","m","e","t","h","o","d","'","]",")",";">>, <<"R","o","u","t","e"," ","r","e","s","p","o","n","d","i","n","g"," ","t","o"," ","m","u","l","t","i","p","l","e"," ","v","e","r","b","s">>, <<"#","E","7","4","C","3","C">>>>),
       Row(<<<<"R","o","u","t","e",":",":","r","e","s","o","u","r","c","e","(","'","u","s","e","r","s","'",","," ","U","s","e","r","C","o","n","t","r","o","l","l","e","r",":",":","c","l","a","s","s",")",";">>, <<"R","e","s","o","u","r","c","e"," ","r","o","u","t","e">>, <<"#","3","4","9","8","D","B">>>>),
       Row(<<<<"R","o","u","t","e",":",":","a","p","i","R","e","s","o","u","r","c","e","(","'","u","s","e","r","s","'",","," ","U","s","e","r","C","o","n","t","r","o","l","l","e","r",":",":","c","l","a","s","s",")",";">>, <<"A","P","I"," ","r","e","s","o","u","r","c","e"," ","r","o","u","t","e"," ","(","n","o"," ","c","r","e","a","t","e","/","e","d","i","t",")">>, <<"#","3","4","9","8","D","B">>>>),
       Row(<<<<"R","o","u","t","e",":",":","r","e","s","o","u","r","c","e","(","'","u","s","e","r","s","'",","," ","U","s","e","r","C","o","n","t","r","o","l","l","e","r",":",":","c","l","a","s","s",")","-",">","o","n","l","y","(","[","'","i","n","d","e","x","'",","," ","'","s","h","o","w","'","]",")",";">>, <<"P","a","r","t","i","a","l"," ","r","e","s","o","u","r","c","e"," ","r","o","u","t","e","s">>, <<"#","3","4","9","8","D","B">>>>),
       Row(<<<<"R","o","u","t","e",":",":","r","e","s","o","u","r","c","e","(","'","u","s","e","r","s","'",","," ","U","s","e","r","C","o","n","t","r","o","l","l","e","r",":",":","c","l","a","s","s",")","-",">","e","x","c","e","p","t","(","[","'","d","e","s","t","r","o","y","'","]",")",";">>, <<"R","e","s","o","u","r","c","e"," ","r","o","u","t","e","s"," ","e","x","c","e","p","t"," ","d","e","s","t","r","o","y">>, <<"#","3","4","9","8","D","B">>>>),
       Row(<<<<"R","o","u","t","e",":",":","g","r","o","u","p","(","[","'","p","r","e","f","i","x","'"," ","=",">"," ","'","a","d","m","i","n","'","]",","," ","f","u","n","c","t","i","o","n"," ","(",")"," ","{"," ",".",".","."," ","}",")",";">>, <<"R","o","u","t","e"," ","g","r","o","u","p"," ","w","i","t","h"," ","p","r","e","f","i","x">>, <<"#","3","4","9","8","D","B">>>>),
       Row(<<<<"R","o","u","t","e",":",":","g","r","o","u","p","(","[","'","m","i","d","d","l","e","w","a","r","e","'"," ","=",">"," ","'","a","u","t","h","'","]",","," ","f","u","n","c","t","i","o","n"," ","(",")"," ","{"," ",".",".","."," ","}",")",";">>, <<"R","o","u","t","e"," ","g","r","o","u","p"," ","w","i","t","h"," ","m","i","d","d","l","e","w","a","r","e">>, <<"#","3","4","9","8","D","B">>>>),
       Row(<<<<"R","o","u","t","e",":",":","g","r","o","u","p","(","[","'","n","a","m","e","s","p","a","c","e","'"," ","=",">"," ","'","A","d","m","i","n","'","]",","," ","f","u","n","c","t","i","o","n"," ","(",")"," ","{"," ",".",".","."," ","}",")",";">>, <<"R","o","u","t","e"," ","g","r","o","u","p"," ","w","i","t","h"," ","n","a","m","e","s","p","a","c","e">>, <<"#","E","7","4","C","3","C">>>>),
       Row(<<<<"R","o","u","t","e",":",":","m","i","d","d","l","e","w","a","r","e","(","[","'","a","u","t","h","'","]",")","-",">","g","r","o","u","p","(","f","u","n","c","t","i","o","n"," ","(",")"," ","{"," ",".",".","."," ","}",")",";">>, <<"R","o","u","t","e"," ","g","r","o","u","p"," ","w","i","t","h"," ","m","i","d","d","l","e","w","a","r","e">>, <<"#","3","4","9","8","D","B">>>>),
       Row(<<<<"R","o","u","t","e",":",":","n","a","m","e","(","'","p","r","o","f","i","l","e","'",")","-",">","g","e","t","(","'","/","p","r","o","f","i","l","e","'",","," ",".",".",".",")",";">>, <<"N","a","m","e","d"," ","r","o","u","t","e">>, <<"#","3","4","9","8","D","B">>>>),
       Row(<<<<"r","o","u","t","e","(","'","p","r","o","f","i","l","e","'",")">>, <<"G","e","n","e","r","a","t","e"," ","U","R","L"," ","f","o","r"," ","n","a","m","e","d"," ","r","o","u","t","e">>, <<"#","3","4","9","8","D","B">>>>),
       Row(<<<<"r","o","u","t","e","(","'","p","r","o","f","i","l","e","'",","," ","[","'","i","d","'"," ","=",">"," ","1","]",")">>, <<"G","e","n","e","r","a","t","e"," ","U","R","L"," ","w","i","t","h"," ","p","a","r","a","m","e","t","e","r","s">>, <<"#","3","4","9","8","D","B">>>>),
       Row(<<<<"R","o","u","t","e",":",":","r","e","d","i","r","e","c","t","(","'","/","h","e","r","e","'",","," ","'","/","t","h","e","r","e","'",")",";">>, <<"R","e","d","i","r","e","c","t"," ","r","o","u","t","e">>, <<"#","3","4","9","8","D","B">>>>),
       Row(<<<<"R","o","u","t","e",":",":","r","e","d","i","r","e","c","t","(","'","/","h","e","r","e","'",","," ","'","/","t","h","e","r","e","'",","," ","3","0","1",")",";">>, <<"P","e","r","m","a","n","e","n","t"," ","r","e","d","i","r","e","c","t"," ","r","o","u","t","e">>, <<"#","3","4","9","8","D","B">>>>),
       Row(<<<<"R","o","u","t","e",":",":","v","i","e","w","(","'","/","w","e","l","c","o","m","e","'",","," ","'","w","e","l","c","o","m","e","'",")",";">>, <<"R","e","t","u","r","n"," ","v","i","e","w"," ","d","i","r","e","c","t","l","y">>, <<"#","3","4","9","8","D","B">>>>),
       Row(<<<<"R","o","u","t","e",":",":","v","i","e","w","(","'","/","w","e","l","c","o","m","e","'",","," ","'","w","e","l","c","o","m","e","'",","," ","[","'","n","a","m","e","'"," ","=",">"," ","'","T","a","y","l","o","r","'","]",")",";">>, <<"R","e","t","u","r","n"," ","v","i","e","w"," ","w","i","t","h"," ","d","a","t","a">>, <<"#","3","4","9","8","D","B">>>>),
       Row(<<<<"R","o","u","t","e",":",":","f","a","l","l","b","a","c","k","(","f","u","n","c","t","i","o","n"," ","(",")"," ","{"," ",".",".","."," ","}",")",";">>, <<"F","a","l","l","b","a","c","k"," ","r","o","u","t","e">>, <<"#","3","4","9","8","D","B">>>>),
       Row(<<<<"R","o","u","t","e",":",":","d","o","m","a","i","n","(","'","{","a","c","c","o","u","n","t","}",".","e","x","a","m","p","l","e",".","c","o","m","'",")","-",">","g","r","o","u","p","(",".",".",".",")",";">>, <<"S","u","b","d","o","m","a","i","n"," ","r","o","u","t","i","n","g">>, <<"#","E","7","4","C","3","C">>>>),
       Row(<<<<"R","o","u","t","e",":",":","w","h","e","r","e","(","'","i","d","'",","," ","'","[","0","-","9","]","+","'",")","-",">","g","e","t","(","'","/","u","s","e","r","/","{","i","d","}","'",","," ",".",".",".",")",";">>, <<"R","o","u","t","e"," ","p","a","r","a","m","e","t","e","r"," ","c","o","n","s","t","r","a","i","n","t","s">>, <<"#","3","4","9","8","D","B">>>>),
       Row(<<<<"R","o","u","t","e",":",":","w","h","e","r","e","N","u","m","b","e","r","(","'","i","d","'",")","-",">","g","e","t","(","'","/","u","s","e","r","/","{","i","d","}","'",","," ",".",".",".",")",";">>, <<"N","u","m","e","r","i","c"," ","p","a","r","a","m","e","t","e","r"," ","c","o","n","s","t","r","a","i","n","t">>, <<"#","3","4","9","8","D","B">>>>),
       Row(<<<<"R","o","u","t","e",":",":","w","h","e","r","e","A","l","p","h","a","(","'","n","a","m","e","'",")","-",">","g","e","t","(","'","/","u","s","e","r","/","{","n","a","m","e","}","'",","," ",".",".",".",")",";">>, <<"A","l","p","h","a","b","e","t","i","c"," ","p","a","r","a","m","e","t","e","r"," ","c","o","n","s","t","r","a","i","n","t">>, <<"#","E","7","4","C","3","C">>>>),
       Row(<<<<"R","o","u","t","e",":",":","w","h","e","r","e","U","u","i","d","(","'","i","d","'",")","-",">","g","e","t","(","'","/","u","s","e","r","/","{","i","d","}","'",","," ",".",".",".",")",";">>, <<"U","U","I","D"," ","p","a","r","a","m","e","t","e","r"," ","c","o","n","s","t","r","a","i","n","t">>, <<"#","E","7","4","C","3","C">>>>),
       Row(<<<<"p","h","p"," ","a","r","t","i","s","a","n"," ","r","o","u","t","e",":","l","i","s","t">>, <<"L","i","s","t"," ","a","l","l"," ","r","o","u","t","e","s">>, <<"#","3","4","9","8","D","B">>>>),
       Row(<<<<"p","h","p"," ","a","r","t","i","s","a","n"," ","r","o","u","t","e",":","l","i","s","t"," ","-","-","n","a","m","e","=","u","s","e","r">>, <<"L","i","s","t"," ","r","o","u","t","e","s"," ","w","i","t","h"," ","s","p","e","c","i","f","i","c"," ","n","a","m","e">>, <<"#","E","7","4","C","3","C">>>>),
       Row(<<<<"p","h","p"," ","a","r","t","i","s","a","n"," ","r","o","u","t","e",":","l","i","s","t"," ","-","-","m","e","t","h","o","d","=","G","E","T">>, <<"L","i","s","t"," ","r","o","u","t","e","s"," ","w","i","t","h"," ","s","p","e","c","i","f","i","c"," ","m","e","t","h","o","d">>, <<"#","E","7","4","C","3","C">>>>),
       Row(<<<<"p","h","p"," ","a","r","t","i","s","a","n"," ","r","o","u","t","e",":","c","a","c","h","e">>, <<"C","a","c","h","e"," ","r","o","u","t","e","s"," ","f","o","r"," ","p","e","r","f","o","r","m","a","n","c","e">>, <<"#","3","4","9","8","D","B">>>>),
       Row(<<<<"p","h","p"," ","a","r","t","i","s","a","n"," ","r","o","u","t","e",":","c","l","e","a","r">>, <<"C","l","e","a","r"," ","r","o","u","t","e"," ","c","a","c","h","e">>, <<"#","3","4","9","8","D","B">>>>)
    >>

\* LaravelCheatSheetPDF.add_database_commands: the rows of "Database & Migrations".
add_database_commands ==
    <<
       Row(<<<<"p","h","p"," ","a","r","t","i","s","a","n"," ","m","i","g","r","a","t","e">>, <<"R","u","n"," ","p","e","n","d","i","n","g"," ","m","i","g","r","a","t","i","o","n","s">>, <<"#","3","4","9","8","D","B">>>>),
       Row(<<<<"p","h","p"," ","a","r","t","i","s","a","n"," ","m","i","g","r","a","t","e"," ","-","-","f","o","r","c","e">>, <<"F","o","r","c","e"," ","r","u","n"," ","m","i","g","r","a","t","i","o","n","s"," ","i","n"," ","p","r","o","d","u","c","t","i","o","n">>, <<"#","3","4","9","8","D","B">>>>),
       Row(<<<<"p","h","p"," ","a","r","t","i","s","a","n"," ","m","i","g","r","a","t","e"," ","-","-","p","r","e","t","e","n","d">>, <<"S","h","o","w"," ","S","Q","L"," ","t","h","a","t"," ","w","o","u","l","d"," ","b","e"," ","e","x","e","c","u","t","e","d">>, <<"#","E","7","4","C","3","C">>>>),
       Row(<<<<"p","h","p"," ","a","r","t","i","s","a","n"," ","m","i","g","r","a","t","e"," ","-","-","s","t","e","p">>, <<"R","u","n"," ","m","i","g","r","a","t","i","o","n","s"," ","o","n","e"," ","b","y"," ","o","n","e">>, <<"#","E","7","4","C","3","C">>>>),
       Row(<<<<"p","h","p"," ","a","r","t","i","s","a","n"," ","m","i","g","r","a","t","e",":","r","o","l","l","b","a","c","k">>, <<"R","o","l","l","b","a","c","k"," ","l","a","s","t"," ","m","i","g","r","a","t","i","o","n">>, <<"#","3","4","9","8","D","B">>>>),
       Row(<<<<"p","h","p"," ","a","r","t","i","s","a","n"," ","m","i","g","r","a","t","e",":","r","o","l","l","b","a","c","k"," ","-","-","s","t","e","p","=","5">>, <<"R","o","l","l","b","a","c","k"," ","s","p","e","c","i","f","i","c"," ","n","u","m","b","e","r"," ","o","f"," ","m","i","g","r","a","t","i","o","n","s">>, <<"#","3","4","9","8","D","B">>>>),
       Row(<<<<"p","h","p"," ","a","r","t","i","s","a","n"," ","m","i","g","r","a","t","e",":","r","e","s","e","t">>, <<"R","e","s","e","t"," ","a","l","l"," ","m","i","g","r","a","t","i","o","n","s">>, <<"#","E","7","4","C","3","C">>>>),
       Row(<<<<"p","h","p"," ","a","r","t","i","s","a","n"," ","m","i","g","r","a","t","e",":","r","e","f","r","e","s","h">>, <<"R","e","s","e","t"," ","a","n","d"," ","r","e","-","r","u","n"," ","a","l","l"," ","m","i","g","r","a","t","i","o","n","s">>, <<"#","3","4","9","8","D","B">>>>),
       Row(<<<<"p","h","p"," ","a","r","t","i","s","a","n"," ","m","i","g","r","a","t","e",":","r","e","f","r","e","s","h"," ","-","-","s","e","e","d">>, <<"R","e","s","e","t",","," ","r","e","-","r","u","n"," ","m","i","g","r","a","t","i","o","n","s"," ","a","n","d"," ","s","e","e","d">>, <<"#","3","4","9","8","D","B">>>>),
       Row(<<<<"p","h","p"," ","a","r","t","i","s","a","n"," ","m","i","g","r","a","t","e",":","f","r","e","s","h">>, <<"D","r","o","p"," ","a","l","l"," ","t","a","b","l","e","s"," ","a","n","d"," ","r","e","-","r","u","n"," ","m","i","g","r","a","t","i","o","n","s">>, <<"#","3","4","9","8","D","B">>>>),
       Row(<<<<"p","h","p"," ","a","r","t","i","s","a","n"," ","m","i","g","r","a","t","e",":","f","r","e","s","h"," ","-","-","s","e","e","d">>, <<"D","r","o","p"," ","a","l","l"," ","t","a","b","l","e","s",","," ","r","e","-","r","u","n"," ","m","i","g","r","a","t","i","o","n","s"," ","a","n","d"," ","s","e","e","d">>, <<"#","3","4","9","8","D","B">>>>),
       Row(<<<<"p","h","p"," ","a","r","t","i","s","a","n"," ","m","i","g","r","a","t","e",":","s","t","a","t","u","s">>, <<"S","h","o","w"," ","m","i","g","r","a","t","i","o","n"," ","s","t","a","t","u","s">>, <<"#","3","4","9","8","D","B">>>>),
       Row(<<<<"p","h","p"," ","a","r","t","i","s","a","n"," ","m","a","k","e",":","m","i","g","r","a","t","i","o","n"," ","c","r","e","a","t","e","_","u","s","e","r","s","_","t","a","b","l","e">>, <<"C","r","e","a","t","e"," ","m","i","g","r","a","t","i","o","n">>, <<"#","3","4","9","8","D","B">>>>),
       Row(<<<<"p","h","p"," ","a","r","t","i","s","a","n"," ","m","a","k","e",":","m","i","g","r","a","t","i","o","n"," ","a","d","d","_","e","m","a","i","l","_","t","o","_","u","s","e","r","s","_","t","a","b","l","e"," ","-","-","t","a","b","l","e","=","u","s","e","r","s">>, <<"A","d","d"," ","c","o","l","u","m","n"," ","m","i","g","r","a","t","i","o","n">>, <<"#","3","4","9","8","D","B">>>>),
       Row(<<<<"p","h","p"," ","a","r","t","i","s","a","n"," ","m","a","k","e",":","m","i","g","r","a","t","i","o","n"," ","c","r","e","a","t","e","_","u","s","e","r","s","_","t","a","b","l","e"," ","-","-","c","r","e","a","t","e","=","u","s","e","r","s">>, <<"C","r","e","a","t","e"," ","t","a","b","l","e"," ","m","i","g","r","a","t","i","o","n">>, <<"#","3","4","9","8","D","B">>>>),
       Row(<<<<"p","h","p"," ","a","r","t","i","s","a","n"," ","d","b",":","s","e","e","d">>, <<"R","u","n"," ","d","a","t","a","b","a","s","e"," ","s","e","e","d","e","r","s">>, <<"#","3","4","9","8","D","B">>>>),
       Row(<<<<"p","h","p"," ","a","r","t","i","s","a","n"," ","d","b",":","s","e","e","d"," ","-","-","c","l","a","s","s","=","U","s","e","r","S","e","e","d","e","r">>, <<"R","u","n"," ","s","p","e","c","i","f","i","c"," ","s","e","e","d","e","r">>, <<"#","3","4","9","8","D","B">>>>),
       Row(<<<<"p","h","p"," ","a","r","t","i","s","a","n"," ","d","b",":","s","e","e","d"," ","-","-","f","o","r","c","e">>, <<"F","o","r","c","e"," ","r","u","n"," ","s","e","e","d","e","r","s"," ","i","n"," ","p","r","o","d","u","c","t","i","o","n">>, <<"#","E","7","4","C","3","C">>>>),
       Row(<<<<"p","h","p"," ","a","r","t","i","s","a","n"," ","d","b",":","w","i","p","e">>, <<"D","r","o","p"," ","a","l","l"," ","t","a","b","l","e","s",","," ","v","i","e","w","s",","," ","a","n","d"," ","t","y","p","e","s">>, <<"#","E","7","4","C","3","C">>>>),
       Row(<<<<"p","h","p"," ","a","r","t","i","s","a","n"," ","d","b",":","s","h","o","w">>, <<"D","i","s","p","l","a","y"," ","i","n","f","o","r","m","a","t","i","o","n"," ","a","b","o","u","t"," ","d","a","t","a","b","a","s","e">>, <<"#","E","7","4","C","3","C">>>>),
       Row(<<<<"p","h","p"," ","a","r","t","i","s","a","n"," ","d","b",":","t","a","b","l","e"," ","u","s","e","r","s">>, <<"D","i","s","p","l","a","y"," ","i","n","f","o","r","m","a","t","i","o","n"," ","a","b","o","u","t"," ","t","a","b","l","e">>, <<"#","E","7","4","C","3","C">>>>),
       Row(<<<<"p","h","p"," ","a","r","t","i","s","a","n"," ","d","b",":","m","o","n","i","t","o","r">>, <<"M","o","n","i","t","o","r"," ","d","a","t","a","b","a","s","e"," ","c","o","n","n","e","c","t","i","o","n","s">>, <<"#","E","7","4","C","3","C">>>>),
       Row(<<<<"p","h","p"," ","a","r","t","i","s","a","n"," ","t","i","n","k","e","r">>, <<"I","n","t","e","r","a","c","t","i","v","e"," ","P","H","P"," ","s","h","e","l","l">>, <<"#","3","4","9","8","D","B">>>>),
       Row(<<<<"p","h","p"," ","a","r","t","i","s","a","n"," ","s","c","h","e","m","a",":","d","u","m","p">>, <<"D","u","m","p"," ","c","u","r","r","e","n","t"," ","d","a","t","a","b","a","s","e"," ","s","c","h","e","m","a">>, <<"#","E","7","4","C","3","C">>>>),
       Row(<<<<"p","h","p"," ","a","r","t","i","s","a","n"," ","s","c","h","e","m","a",":","d","u","m","p"," ","-","-","p","r","u","n","e">>, <<"D","u","m","p"," ","s","c","h","e","m","a"," ","a","n","d"," ","p","r","u","n","e"," ","m","i","g","r","a","t","i","o","n"," ","f","i","l","e","s">>, <<"#","E","7","4","C","3","C">>>>)
    >>

\* LaravelCheatSheetPDF.add_eloquent_commands: the rows of "Eloquent ORM".
add_eloquent_commands ==
    <<
       Row(<<<<"U","s","e","r",":",":","a","l","l","(",")">>, <<"G","e","t"," ","a","l","l"," ","r","e","c","o","r","d","s">>, <<"#","3","4","9","8","D","B">>>>),
       Row(<<<<"U","s","e","r",":",":","f","i","n","d","(","$","i","d",")">>, <<"F","i","n","d"," ","r","e","c","o","r","d"," ","b","y"," ","I","D">>, <<"#","3","4","9","8","D","B">>>>),
       Row(<<<<"U","s","e","r",":",":","f","i","n","d","O","r","F","a","i","l","(","$","i","d",")">>, <<"F","i","n","d"," ","r","e","c","o","r","d"," ","b","y"," ","I","D"," ","o","r"," ","t","h","r","o","w"," ","e","x","c","e","p","t","i","o","n">>, <<"#","3","4","9","8","D","B">>>>),
       Row(<<<<"U","s","e","r",":",":","f","i","r","s","t","(",")">>, <<"G","e","t"," ","f","i","r","s","t"," ","r","e","c","o","r","d">>, <<"#","3","4","9","8","D","B">>>>),
       Row(<<<<"U","s","e","r",":",":","f","i","r","s","t","O","r","F","a","i","l","(",")">>, <<"G","e","t"," ","f","i","r","s","t"," ","r","e","c","o","r","d"," ","o","r"," ","t","h","r","o","w"," ","e","x","c","e","p","t","i","o","n">>, <<"#","3","4","9","8","D","B">>>>),
       Row(<<<<"U","s","e","r",":",":","l","a","t","e","s","t","(",")","-",">","g","e","t","(",")">>, <<"G","e","t"," ","r","e","c","o","r","d","s"," ","o","r","d","e","r","e","d"," ","b","y"," ","l","a","t","e","s","t">>, <<"#","3","4","9","8","D","B">>>>),
       Row(<<<<"U","s","e","r",":",":","o","l","d","e","s","t","(",")","-",">","g","e","t","(",")">>, <<"G","e","t"," ","r","e","c","o","r","d","s"," ","o","r","d","e","r","e","d"," ","b","y"," ","o","l","d","e","s","t">>, <<"#","3","4","9","8","D","B">>>>),
       Row(<<<<"U","s","e","r",":",":","w","h","e","r","e","(","'","n","a","m","e","'",","," ","'","J","o","h","n","'",")","-",">","g","e","t","(",")">>, <<"Q","u","e","r","y"," ","w","i","t","h"," ","w","h","e","r","e"," ","c","l","a","u","s","e">>, <<"#","3","4","9","8","D","B">>>>),
       Row(<<<<"U","s","e","r",":",":","w","h","e","r","e","(","'","a","g","e","'",","," ","'",">","'",","," ","1","8",")","-",">","g","e","t","(",")">>, <<"Q","u","e","r","y"," ","w","i","t","h"," ","c","o","m","p","a","r","i","s","o","n"," ","o","p","e","r","a","t","o","r">>, <<"#","3","4","9","8","D","B">>>>),
       Row(<<<<"U","s","e","r",":",":","w","h","e","r","e","I","n","(","'","i","d","'",","," ","[","1",","," ","2",","," ","3","]",")","-",">","g","e","t","(",")">>, <<"Q","u","e","r","y"," ","w","i","t","h"," ","w","h","e","r","e","I","n">>, <<"#","3","4","9","8","D","B">>>>),
       Row(<<<<"U","s","e","r",":",":","w","h","e","r","e","B","e","t","w","e","e","n","(","'","a","g","e","'",","," ","[","1","8",","," ","6","5","]",")","-",">","g","e","t","(",")">>, <<"Q","u","e","r","y"," ","w","i","t","h"," ","w","h","e","r","e","B","e","t","w","e","e","n">>, <<"#","3","4","9","8","D","B">>>>),
       Row(<<<<"U","s","e","r",":",":","w","h","e","r","e","N","u","l","l","(","'","e","m","a","i","l","_","v","e","r","i","f","i","e","d","_","a","t","'",")","-",">","g","e","t","(",")">>, <<"Q","u","e","r","y"," ","w","i","t","h"," ","w","h","e","r","e","N","u","l","l">>, <<"#","3","4","9","8","D","B">>>>),
       Row(<<<<"U","s","e","r",":",":","w","h","e","r","e","N","o","t","N","u","l","l","(","'","e","m","a","i","l","_","v","e","r","i","f","i","e","d","_","a","t","'",")","-",">","g","e","t","(",")">>, <<"Q","u","e","r","y"," ","w","i","t","h"," ","w","h","e","r","e","N","o","t","N","u","l","l">>, <<"#","3","4","9","8","D","B">>>>),
       Row(<<<<"U","s","e","r",":",":","w","h","e","r","e","D","a","t","e","(","'","c","r","e","a","t","e","d","_","a","t","'",","," ","'","2","0","2","3","-","0","1","-","0","1","'",")","-",">","g","e","t","(",")">>, <<"Q","u","e","r","y"," ","b","y"," ","d","a","t","e">>, <<"#","3","4","9","8","D","B">>>>),
       Row(<<<<"U","s","e","r",":",":","w","h","e","r","e","Y","e","a","r","(","'","c","r","e","a","t","e","d","_","a","t","'",","," ","2","0","2","3",")","-",">","g","e","t","(",")">>, <<"Q","u","e","r","y"," ","b","y"," ","y","e","a","r">>, <<"#","E","7","4","C","3","C">>>>),
       Row(<<<<"U","s","e","r",":",":","w","h","e","r","e","M","o","n","t","h","(","'","c","r","e","a","t","e","d","_","a","t","'",","," ","1",")","-",">","g","e","t","(",")">>, <<"Q","u","e","r","y"," ","b","y"," ","m","o","n","t","h">>, <<"#","E","7","4","C","3","C">>>>),
       Row(<<<<"U","s","e","r",":",":","s","e","l","e","c","t","(","'","n","a","m","e","'",","," ","'","e","m","a","i","l","'",")","-",">","g","e","t","(",")">>, <<"S","e","l","e","c","t"," ","s","p","e","c","i","f","i","c"," ","c","o","l","u","m","n","s">>, <<"#","3","4","9","8","D","B">>>>),
       Row(<<<<"U","s","e","r",":",":","d","i","s","t","i","n","c","t","(",")","-",">","g","e","t","(",")">>, <<"G","e","t"," ","d","i","s","t","i","n","c","t"," ","r","e","c","o","r","d","s">>, <<"#","E","7","4","C","3","C">>>>),
       Row(<<<<"U","s","e","r",":",":","o","r","d","e","r","B","y","(","'","n","a","m","e","'",","," ","'","a","s","c","'",")","-",">","g","e","t","(",")">>, <<"O","r","d","e","r"," ","r","e","s","u","l","t","s"," ","a","s","c","e","n","d","i","n","g">>, <<"#","3","4","9","8","D","B">>>>),
       Row(<<<<"U","s","e","r",":",":","o","r","d","e","r","B","y","(","'","c","r","e","a","t","e","d","_","a","t","'",","," ","'","d","e","s","c","'",")","-",">","g","e","t","(",")">>, <<"O","r","d","e","r"," ","r","e","s","u","l","t","s"," ","d","e","s","c","e","n","d","i","n","g">>, <<"#","3","4","9","8","D","B">>>>),
       Row(<<<<"U","s","e","r",":",":","t","a","k","e","(","1","0",")","-",">","g","e","t","(",")">>, <<"L","i","m","i","t"," ","r","e","s","u","l","t","s">>, <<"#","3","4","9","8","D","B">>>>),
       Row(<<<<"U","s","e","r",":",":","s","k","i","p","(","1","0",")","-",">","t","a","k","e","(","1","0",")","-",">","g","e","t","(",")">>, <<"S","k","i","p"," ","a","n","d"," ","t","a","k","e"," ","(","p","a","g","i","n","a","t","i","o","n",")">>, <<"#","E","7","4","C","3","C">>>>),
       Row(<<<<"U","s","e","r",":",":","p","a","g","i","n","a","t","e","(","1","5",")">>, <<"P","a","g","i","n","a","t","e"," ","r","e","s","u","l","t","s">>, <<"#","3","4","9","8","D","B">>>>),
       Row(<<<<"U","s","e","r",":",":","s","i","m","p","l","e","P","a","g","i","n","a","t","e","(","1","5",")">>, <<"S","i","m","p","l","e"," ","p","a","g","i","n","a","t","i","o","n">>, <<"#","3","4","9","8","D","B">>>>),
       Row(<<<<"U","s","e","r",":",":","c","o","u","n","t","(",")">>, <<"C","o","u","n","t"," ","r","e","c","o","r","d","s">>, <<"#","3","4","9","8","D","B">>>>),
       Row(<<<<"U","s","e","r",":",":","m","a","x","(","'","a","g","e","'",")">>, <<"G","e","t"," ","m","a","x","i","m","u","m"," ","v","a","l","u","e">>, <<"#","3","4","9","8","D","B">>>>),
       Row(<<<<"U","s","e","r",":",":","m","i","n","(","'","a","g","e","'",")">>, <<"G","e","t"," ","m","i","n","i","m","u","m"," ","v","a","l","u","e">>, <<"#","3","4","9","8","D","B">>>>),
       Row(<<<<"U","s","e","r",":",":","a","v","g","(","'","a","g","e","'",")">>, <<"G","e","t"," ","a","v","e","r","a","g","e"," ","v","a","l","u","e">>, <<"#","3","4","9","8","D","B">>>>),
       Row(<<<<"U","s","e","r",":",":","s","u","m","(","'","s","a","l","a","r","y","'",")">>, <<"G","e","t"," ","s","u","m"," ","o","f"," ","v","a","l","u","e","s">>, <<"#","3","4","9","8","D","B">>>>),
       Row(<<<<"U","s","e","r",":",":","c","r","e","a","t","e","(","[","'","n","a","m","e","'"," ","=",">"," ","'","J","o","h","n","'",","," ","'","e","m","a","i","l","'"," ","=",">"," ","'",".",".",".","'","]",")">>, <<"C","r","e","a","t","e"," ","n","e","w"," ","r","e","c","o","r","d">>, <<"#","3","4","9","8","D","B">>>>),
       Row(<<<<"U","s","e","r",":",":","i","n","s","e","r","t","(","[","[","'","n","a","m","e","'"," ","=",">"," ","'","J","o","h","n","'","]",","," ","[","'","n","a","m","e","'"," ","=",">"," ","'","J","a","n","e","'","]","]",")">>, <<"I","n","s","e","r","t"," ","m","u","l","t","i","p","l","e"," ","r","e","c","o","r","d","s">>, <<"#","3","4","9","8","D","B">>>>),
       Row(<<<<"U","s","e","r",":",":","u","p","d","a","t","e","O","r","C","r","e","a","t","e","(","[","'","e","m","a","i","l","'"," ","=",">"," ","'",".",".",".","'","]",","," ","[","'","n","a","m","e","'"," ","=",">"," ","'","J","o","h","n","'","]",")">>, <<"U","p","d","a","t","e"," ","o","r"," ","c","r","e","a","t","e"," ","r","e","c","o","r","d">>, <<"#","3","4","9","8","D","B">>>>),
       Row(<<<<"U","s","e","r",":",":","f","i","r","s","t","O","r","C","r","e","a","t","e","(","[","'","e","m","a","i","l","'"," ","=",">"," ","'",".",".",".","'","]",","," ","[","'","n","a","m","e","'"," ","=",">"," ","'","J","o","h","n","'","]",")">>, <<"F","i","n","d"," ","o","r"," ","c","r","e","a","t","e"," ","r","e","c","o","r","d">>, <<"#","3","4","9","8","D","B">>>>),
       Row(<<<<"$","u","s","e","r","-",">","u","p","d","a","t","e","(","[","'","n","a","m","e","'"," ","=",">"," ","'","J","a","n","e","'","]",")">>, <<"U","p","d","a","t","e"," ","r","e","c","o","r","d">>, <<"#","3","4","9","8","D","B">>>>),
       Row(<<<<"U","s","e","r",":",":","w","h","e","r","e","(","'","a","c","t","i","v","e","'",","," ","f","a","l","s","e",")","-",">","u","p","d","a","t","e","(","[","'","a","c","t","i","v","e","'"," ","=",">"," ","t","r","u","e","]",")">>, <<"U","p","d","a","t","e"," ","m","u","l","t","i","p","l","e"," ","r","e","c","o","r","d","s">>, <<"#","3","4","9","8","D","B">>>>),
       Row(<<<<"$","u","s","e","r","-",">","d","e","l","e","t","e","(",")">>, <<"D","e","l","e","t","e"," ","r","e","c","o","r","d">>, <<"#","3","4","9","8","D","B">>>>),
       Row(<<<<"U","s","e","r",":",":","d","e","s","t","r","o","y","(","[","1",","," ","2",","," ","3","]",")">>, <<"D","e","l","e","t","e"," ","m","u","l","t","i","p","l","e"," ","r","e","c","o","r","d","s"," ","b","y"," ","I","D">>, <<"#","3","4","9","8","D","B">>>>),
       Row(<<<<"U","s","e","r",":",":","w","h","e","r","e","(","'","a","c","t","i","v","e","'",","," ","f","a","l","s","e",")","-",">","d","e","l","e","t","e","(",")">>, <<"D","e","l","e","t","e"," ","m","u","l","t","i","p","l","e"," ","r","e","c","o","r","d","s"," ","b","y"," ","q","u","e","r","y">>, <<"#","3","4","9","8","D","B">>>>),
       Row(<<<<"U","s","e","r",":",":","w","i","t","h","(","'","p","o","s","t","s","'",")","-",">","g","e","t","(",")">>, <<"E","a","g","e","r"," ","l","o","a","d","i","n","g">>, <<"#","3","4","9","8","D","B">>>>),
       Row(<<<<"U","s","e","r",":",":","w","i","t","h","(","[","'","p","o","s","t","s","'",","," ","'","c","o","m","m","e","n","t","s","'","]",")","-",">","g","e","t","(",")">>, <<"M","u","l","t","i","p","l","e"," ","e","a","g","e","r"," ","l","o","a","d","i","n","g">>, <<"#","3","4","9","8","D","B">>>>),
       Row(<<<<"U","s","e","r",":",":","w","i","t","h","(","'","p","o","s","t","s",":","i","d",",","t","i","t","l","e",",","u","s","e","r","_","i","d","'",")","-",">","g","e","t","(",")">>, <<"E","a","g","e","r"," ","l","o","a","d","i","n","g"," ","s","p","e","c","i","f","i","c"," ","c","o","l","u","m","n","s">>, <<"#","3","4","9","8","D","B">>>>),
       Row(<<<<"U","s","e","r",":",":","w","i","t","h","C","o","u","n","t","(","'","p","o","s","t","s","'",")","-",">","g","e","t","(",")">>, <<"E","a","g","e","r"," ","l","o","a","d","i","n","g"," ","w","i","t","h"," ","c","o","u","n","t">>, <<"#","3","4","9","8","D","B">>>>)
    >>

\* LaravelCheatSheetPDF.add_blade_commands: the rows of "Blade Templates".
add_blade_commands ==
    <<
       Row(<<<<"{","{"," ","$","v","a","r","i","a","b","l","e"," ","}","}">>, <<"E","c","h","o"," ","v","a","r","i","a","b","l","e"," ","(","e","s","c","a","p","e","d",")">>, <<"#","3","4","9","8","D","B">>>>),
       Row(<<<<"{","!","!"," ","$","v","a","r","i","a","b","l","e"," ","!","!","}">>, <<"E","c","h","o"," ","v","a","r","i","a","b","l","e"," ","(","u","n","e","s","c","a","p","e","d",")">>, <<"#","3","4","9","8","D","B">>>>),
       Row(<<<<"@","i","f","(","$","c","o","n","d","i","t","i","o","n",")"," ",".",".","."," ","@","e","n","d","i","f">>, <<"C","o","n","d","i","t","i","o","n","a","l"," ","s","t","a","t","e","m","e","n","t">>, <<"#","3","4","9","8","D","B">>>>),
       Row(<<<<"@","f","o","r","e","a","c","h","(","$","i","t","e","m","s"," ","a","s"," ","$","i","t","e","m",")"," ",".",".","."," ","@","e","n","d","f","o","r","e","a","c","h">>, <<"L","o","o","p"," ","t","h","r","o","u","g","h"," ","i","t","e","m","s">>, <<"#","3","4","9","8","D","B">>>>),
       Row(<<<<"@","e","x","t","e","n","d","s","(","'","l","a","y","o","u","t",".","a","p","p","'",")">>, <<"E","x","t","e","n","d"," ","l","a","y","o","u","t">>, <<"#","3","4","9","8","D","B">>>>),
       Row(<<<<"@","s","e","c","t","i","o","n","(","'","c","o","n","t","e","n","t","'",")"," ",".",".","."," ","@","e","n","d","s","e","c","t","i","o","n">>, <<"D","e","f","i","n","e"," ","s","e","c","t","i","o","n">>, <<"#","3","4","9","8","D","B">>>>),
       Row(<<<<"@","y","i","e","l","d","(","'","c","o","n","t","e","n","t","'",")">>, <<"Y","i","e","l","d"," ","s","e","c","t","i","o","n"," ","c","o","n","t","e","n","t">>, <<"#","3","4","9","8","D","B">>>>),
       Row(<<<<"@","i","n","c","l","u","d","e","(","'","p","a","r","t","i","a","l","s",".","h","e","a","d","e","r","'",")">>, <<"I","n","c","l","u","d","e"," ","p","a","r","t","i","a","l"," ","v","i","e","w">>, <<"#","3","4","9","8","D","B">>>>),
       Row(<<<<"@","a","u","t","h"," ",".",".","."," ","@","e","n","d","a","u","t","h">>, <<"C","h","e","c","k"," ","i","f"," ","u","s","e","r"," ","i","s"," ","a","u","t","h","e","n","t","i","c","a","t","e","d">>, <<"#","3","4","9","8","D","B">>>>),
       Row(<<<<"@","g","u","e","s","t"," ",".",".","."," ","@","e","n","d","g","u","e","s","t">>, <<"C","h","e","c","k"," ","i","f"," ","u","s","e","r"," ","i","s"," ","g","u","e","s","t">>, <<"#","3","4","9","8","D","B">>>>),
       Row(<<<<"@","c","s","r","f">>, <<"C","S","R","F"," ","t","o","k","e","n"," ","f","i","e","l","d">>, <<"#","3","4","9","8","D","B">>>>),
       Row(<<<<"@","m","e","t","h","o","d","(","'","P","U","T","'",")">>, <<"M","e","t","h","o","d"," ","s","p","o","o","f","i","n","g"," ","f","i","e","l","d">>, <<"#","3","4","9","8","D","B">>>>)
    >>

\* LaravelCheatSheetPDF.add_auth_commands: the rows of "Authentication".
add_auth_commands ==
    <<
       Row(<<<<"p","h","p"," ","a","r","t","i","s","a","n"," ","m","a","k","e",":","a","u","t","h">>, <<"S","c","a","f","f","o","l","d"," ","a","u","t","h","e","n","t","i","c","a","t","i","o","n"," ","v","i","e","w","s">>, <<"#","E","7","4","C","3","C">>>>),
       Row(<<<<"p","h","p"," ","a","r","t","i","s","a","n"," ","u","i",":","a","u","t","h">>, <<"G","e","n","e","r","a","t","e"," ","a","u","t","h","e","n","t","i","c","a","t","i","o","n"," ","s","c","a","f","f","o","l","d","i","n","g">>, <<"#","E","7","4","C","3","C">>>>),
       Row(<<<<"A","u","t","h",":",":","c","h","e","c","k","(",")">>, <<"C","h","e","c","k"," ","i","f"," ","u","s","e","r"," ","i","s"," ","a","u","t","h","e","n","t","i","c","a","t","e","d">>, <<"#","3","4","9","8","D","B">>>>),
       Row(<<<<"A","u","t","h",":",":","u","s","e","r","(",")">>, <<"G","e","t"," ","a","u","t","h","e","n","t","i","c","a","t","e","d"," ","u","s","e","r">>, <<"#","3","4","9","8","D","B">>>>),
       Row(<<<<"A","u","t","h",":",":","l","o","g","i","n","(","$","u","s","e","r",")">>, <<"L","o","g"," ","i","n"," ","u","s","e","r">>, <<"#","3","4","9","8","D","B">>>>),
       Row(<<<<"A","u","t","h",":",":","l","o","g","o","u","t","(",")">>, <<"L","o","g"," ","o","u","t"," ","u","s","e","r">>, <<"#","3","4","9","8","D","B">>>>),
       Row(<<<<"a","u","t","h","(",")","-",">","u","s","e","r","(",")">>, <<"H","e","l","p","e","r"," ","f","o","r"," ","a","u","t","h","e","n","t","i","c","a","t","e","d"," ","u","s","e","r">>, <<"#","3","4","9","8","D","B">>>>),
       Row(<<<<"a","u","t","h","(",")","-",">","c","h","e","c","k","(",")">>, <<"H","e","l","p","e","r"," ","t","o"," ","c","h","e","c","k"," ","a","u","t","h","e","n","t","i","c","a","t","i","o","n">>, <<"#","3","4","9","8","D","B">>>>),
       Row(<<<<"@","a","u","t","h"," ",".",".","."," ","@","e","n","d","a","u","t","h">>, <<"B","l","a","d","e"," ","d","i","r","e","c","t","i","v","e"," ","f","o","r"," ","a","u","t","h"," ","c","h","e","c","k">>, <<"#","3","4","9","8","D","B">>>>),
       Row(<<<<"R","o","u","t","e",":",":","m","i","d","d","l","e","w","a","r","e","(","'","a","u","t","h","'",")","-",">","g","r","o","u","p","(",".",".",".",")">>, <<"P","r","o","t","e","c","t"," ","r","o","u","t","e","s"," ","w","i","t","h"," ","a","u","t","h">>, <<"#","3","4","9","8","D","B">>>>)
    >>

\* LaravelCheatSheetPDF.add_middleware_commands: the rows of "Middleware".
add_middleware_commands ==
    <<
       Row(<<<<"p","h","p"," ","a","r","t","i","s","a","n"," ","m","a","k","e",":","m","i","d","d","l","e","w","a","r","e"," ","C","h","e","c","k","A","g","e">>, <<"C","r","e","a","t","e"," ","m","i","d","d","l","e","w","a","r","e">>, <<"#","3","4","9","8","D","B">>>>),
       Row(<<<<"R","o","u","t","e",":",":","m","i","d","d","l","e","w","a","r","e","(","'","a","u","t","h","'",")","-",">","g","e","t","(",".",".",".",")">>, <<"A","p","p","l","y"," ","m","i","d","d","l","e","w","a","r","e"," ","t","o"," ","r","o","u","t","e">>, <<"#","3","4","9","8","D","B">>>>),
       Row(<<<<"R","o","u","t","e",":",":","m","i","d","d","l","e","w","a","r","e","(","[","'","a","u","t","h","'",","," ","'","a","d","m","i","n","'","]",")","-",">","g","e","t","(",".",".",".",")">>, <<"M","u","l","t","i","p","l","e"," ","m","i","d","d","l","e","w","a","r","e">>, <<"#","3","4","9","8","D","B">>>>),
       Row(<<<<"p","r","o","t","e","c","t","e","d"," ","$","m","i","d","d","l","e","w","a","r","e"," ","="," ","[",".",".",".","]"," ","i","n"," ","K","e","r","n","e","l",".","p","h","p">>, <<"G","l","o","b","a","l"," ","m","i","d","d","l","e","w","a","r","e">>, <<"#","E","7","4","C","3","C">>>>),
       Row(<<<<"p","r","o","t","e","c","t","e","d"," ","$","m","i","d","d","l","e","w","a","r","e","G","r","o","u","p","s"," ","="," ","[",".",".",".","]"," ","i","n"," ","K","e","r","n","e","l",".","p","h","p">>, <<"M","i","d","d","l","e","w","a","r","e"," ","g","r","o","u","p","s">>, <<"#","E","7","4","C","3","C">>>>),
       Row(<<<<"p","r","o","t","e","c","t","e","d"," ","$","r","o","u","t","e","M","i","d","d","l","e","w","a","r","e"," ","="," ","[",".",".",".","]"," ","i","n"," ","K","e","r","n","e","l",".","p","h","p">>, <<"R","o","u","t","e"," ","m","i","d","d","l","e","w","a","r","e">>, <<"#","3","4","9","8","D","B">>>>),
       Row(<<<<"$","r","e","q","u","e","s","t","-",">","u","s","e","r","(",")">>, <<"A","c","c","e","s","s"," ","u","s","e","r"," ","i","n"," ","m","i","d","d","l","e","w","a","r","e">>, <<"#","3","4","9","8","D","B">>>>),
       Row(<<<<"r","e","t","u","r","n"," ","$","n","e","x","t","(","$","r","e","q","u","e","s","t",")">>, <<"P","a","s","s"," ","r","e","q","u","e","s","t"," ","t","o"," ","n","e","x","t"," ","m","i","d","d","l","e","w","a","r","e">>, <<"#","3","4","9","8","D","B">>>>),
       Row(<<<<"a","b","o","r","t","(","4","0","3",")">>, <<"D","e","n","y"," ","a","c","c","e","s","s"," ","i","n"," ","m","i","d","d","l","e","w","a","r","e">>, <<"#","3","4","9","8","D","B">>>>)
    >>

\* LaravelCheatSheetPDF.add_validation_commands: the rows of "Validation Rules".
add_validation_commands ==
    <<
       Row(<<<<"$","r","e","q","u","e","s","t","-",">","v","a","l","i","d","a","t","e","(","[","'","e","m","a","i","l","'"," ","=",">"," ","'","r","e","q","u","i","r","e","d","|","e","m","a","i","l","'","]",")">>, <<"B","a","s","i","c"," ","v","a","l","i","d","a","t","i","o","n">>, <<"#","3","4","9","8","D","B">>>>),
       Row(<<<<"'","r","e","q","u","i","r","e","d","|","s","t","r","i","n","g","|","m","a","x",":","2","5","5","'">>, <<"C","o","m","m","o","n"," ","s","t","r","i","n","g"," ","v","a","l","i","d","a","t","i","o","n">>, <<"#","3","4","9","8","D","B">>>>),
       Row(<<<<"'","r","e","q","u","i","r","e","d","|","e","m","a","i","l","|","u","n","i","q","u","e",":","u","s","e","r","s","'">>, <<"E","m","a","i","l"," ","v","a","l","i","d","a","t","i","o","n"," ","w","i","t","h"," ","u","n","i","q","u","e">>, <<"#","3","4","9","8","D","B">>>>),
       Row(<<<<"'","n","u","l","l","a","b","l","e","|","i","n","t","e","g","e","r","|","m","i","n",":","1","'">>, <<"O","p","t","i","o","n","a","l"," ","i","n","t","e","g","e","r"," ","v","a","l","i","d","a","t","i","o","n">>, <<"#","3","4","9","8","D","B">>>>),
       Row(<<<<"'","r","e","q","u","i","r","e","d","|","a","r","r","a","y","|","m","i","n",":","1","'">>, <<"A","r","r","a","y"," ","v","a","l","i","d","a","t","i","o","n">>, <<"#","3","4","9","8","D","B">>>>),
       Row(<<<<"'","r","e","q","u","i","r","e","d","|","f","i","l","e","|","m","i","m","e","s",":","j","p","g",",","p","n","g","|","m","a","x",":","2","0","4","8","'">>, <<"F","i","l","e"," ","v","a","l","i","d","a","t","i","o","n">>, <<"#","3","4","9","8","D","B">>>>),
       Row(<<<<"'","r","e","q","u","i","r","e","d","|","d","a","t","e","|","a","f","t","e","r",":","t","o","d","a","y","'">>, <<"D","a","t","e"," ","v","a","l","i","d","a","t","i","o","n">>, <<"#","3","4","9","8","D","B">>>>),
       Row(<<<<"'","r","e","q","u","i","r","e","d","|","c","o","n","f","i","r","m","e","d","'">>, <<"P","a","s","s","w","o","r","d"," ","c","o","n","f","i","r","m","a","t","i","o","n">>, <<"#","3","4","9","8","D","B">>>>),
       Row(<<<<"'","s","o","m","e","t","i","m","e","s","|","n","u","l","l","a","b","l","e","|","s","t","r","i","n","g","'">>, <<"C","o","n","d","i","t","i","o","n","a","l"," ","v","a","l","i","d","a","t","i","o","n">>, <<"#","3","4","9","8","D","B">>>>),
       Row(<<<<"R","u","l","e",":",":","e","x","i","s","t","s","(","'","u","s","e","r","s","'",","," ","'","i","d","'",")">>, <<"D","a","t","a","b","a","s","e"," ","v","a","l","i","d","a","t","i","o","n"," ","r","u","l","e">>, <<"#","3","4","9","8","D","B">>>>),
       Row(<<<<"R","u","l","e",":",":","u","n","i","q","u","e","(","'","u","s","e","r","s","'",")","-",">","i","g","n","o","r","e","(","$","u","s","e","r","-",">","i","d",")">>, <<"U","n","i","q","u","e"," ","w","i","t","h"," ","i","g","n","o","r","e">>, <<"#","3","4","9","8","D","B">>>>),
       Row(<<<<"'","r","e","q","u","i","r","e","d","|","r","e","g","e","x",":","/","^","[","A","-","Z","a","-","z","]","+","$","/","'">>, <<"R","e","g","e","x"," ","v","a","l","i","d","a","t","i","o","n">>, <<"#","E","7","4","C","3","C">>>>),
       Row(<<<<"p","h","p"," ","a","r","t","i","s","a","n"," ","m","a","k","e",":","r","u","l","e"," ","U","p","p","e","r","c","a","s","e">>, <<"C","u","s","t","o","m"," ","v","a","l","i","d","a","t","i","o","n"," ","r","u","l","e">>, <<"#","E","7","4","C","3","C">>>>)
    >>

\* LaravelCheatSheetPDF.add_api_commands: the rows of "API Development".
add_api_commands ==
    <<
       Row(<<<<"p","h","p"," ","a","r","t","i","s","a","n"," ","m","a","k","e",":","r","e","s","o","u","r","c","e"," ","U","s","e","r","R","e","s","o","u","r","c","e">>, <<"C","r","e","a","t","e"," ","A","P","I"," ","r","e","s","o","u","r","c","e">>, <<"#","3","4","9","8","D","B">>>>),
       Row(<<<<"p","h","p"," ","a","r","t","i","s","a","n"," ","m","a","k","e",":","r","e","s","o","u","r","c","e"," ","U","s","e","r","C","o","l","l","e","c","t","i","o","n">>, <<"C","r","e","a","t","e"," ","A","P","I"," ","c","o","l","l","e","c","t","i","o","n">>, <<"#","3","4","9","8","D","B">>>>),
       Row(<<<<"r","e","t","u","r","n"," ","n","e","w"," ","U","s","e","r","R","e","s","o","u","r","c","e","(","$","u","s","e","r",")">>, <<"R","e","t","u","r","n"," ","s","i","n","g","l","e"," ","r","e","s","o","u","r","c","e">>, <<"#","3","4","9","8","D","B">>>>),
       Row(<<<<"r","e","t","u","r","n"," ","U","s","e","r","R","e","s","o","u","r","c","e",":",":","c","o","l","l","e","c","t","i","o","n","(","$","u","s","e","r","s",")">>, <<"R","e","t","u","r","n"," ","r","e","s","o","u","r","c","e"," ","c","o","l","l","e","c","t","i","o","n">>, <<"#","3","4","9","8","D","B">>>>),
       Row(<<<<"p","h","p"," ","a","r","t","i","s","a","n"," ","i","n","s","t","a","l","l",":","a","p","i">>, <<"I","n","s","t","a","l","l"," ","L","a","r","a","v","e","l"," ","S","a","n","c","t","u","m">>, <<"#","2","7","A","E","6","0">>>>),
       Row(<<<<"$","u","s","e","r","-",">","c","r","e","a","t","e","T","o","k","e","n","(","'","t","o","k","e","n","-","n","a","m","e","'",")">>, <<"C","r","e","a","t","e"," ","A","P","I"," ","t","o","k","e","n">>, <<"#","3","4","9","8","D","B">>>>),
       Row(<<<<"R","o","u","t","e",":",":","m","i","d","d","l","e","w","a","r","e","(","'","a","u","t","h",":","s","a","n","c","t","u","m","'",")","-",">","g","e","t","(",".",".",".",")">>, <<"P","r","o","t","e","c","t"," ","A","P","I"," ","r","o","u","t","e">>, <<"#","3","4","9","8","D","B">>>>),
       Row(<<<<"r","e","t","u","r","n"," ","r","e","s","p","o","n","s","e","(",")","-",">","j","s","o","n","(","$","d","a","t","a",")">>, <<"R","e","t","u","r","n"," ","J","S","O","N"," ","r","e","s","p","o","n","s","e">>, <<"#","3","4","9","8","D","B">>>>),
       Row(<<<<"r","e","t","u","r","n"," ","r","e","s","p","o","n","s","e","(",")","-",">","j","s","o","n","(","$","d","a","t","a",","," ","2","0","1",")">>, <<"R","e","t","u","r","n"," ","J","S","O","N"," ","w","i","t","h"," ","s","t","a","t","u","s">>, <<"#","3","4","9","8","D","B">>>>),
       Row(<<<<"a","b","o","r","t","_","i","f","(","$","c","o","n","d","i","t","i","o","n",","," ","4","0","3",")">>, <<"C","o","n","d","i","t","i","o","n","a","l"," ","a","b","o","r","t">>, <<"#","3","4","9","8","D","B">>>>),
       Row(<<<<"$","r","e","q","u","e","s","t","-",">","e","x","p","e","c","t","s","J","s","o","n","(",")">>, <<"C","h","e","c","k"," ","i","f"," ","r","e","q","u","e","s","t"," ","e","x","p","e","c","t","s"," ","J","S","O","N">>, <<"#","E","7","4","C","3","C">>>>)
    >>

\* LaravelCheatSheetPDF.add_queue_commands: the rows of "Queues & Jobs".
add_queue_commands ==
    <<
       Row(<<<<"p","h","p"," ","a","r","t","i","s","a","n"," ","q","u","e","u","e",":","w","o","r","k">>, <<"S","t","a","r","t"," ","p","r","o","c","e","s","s","i","n","g"," ","j","o","b","s">>, <<"#","3","4","9","8","D","B">>>>),
       Row(<<<<"p","h","p"," ","a","r","t","i","s","a","n"," ","q","u","e","u","e",":","l","i","s","t","e","n">>, <<"L","i","s","t","e","n"," ","f","o","r"," ","n","e","w"," ","j","o","b","s">>, <<"#","3","4","9","8","D","B">>>>),
       Row(<<<<"p","h","p"," ","a","r","t","i","s","a","n"," ","q","u","e","u","e",":","r","e","s","t","a","r","t">>, <<"R","e","s","t","a","r","t"," ","q","u","e","u","e"," ","w","o","r","k","e","r","s">>, <<"#","3","4","9","8","D","B">>>>),
       Row(<<<<"p","h","p"," ","a","r","t","i","s","a","n"," ","q","u","e","u","e",":","f","a","i","l","e","d">>, <<"L","i","s","t"," ","f","a","i","l","e","d"," ","j","o","b","s">>, <<"#","3","4","9","8","D","B">>>>),
       Row(<<<<"p","h","p"," ","a","r","t","i","s","a","n"," ","q","u","e","u","e",":","r","e","t","r","y"," ","a","l","l">>, <<"R","e","t","r","y"," ","a","l","l"," ","f","a","i","l","e","d"," ","j","o","b","s">>, <<"#","3","4","9","8","D","B">>>>),
       Row(<<<<"p","h","p"," ","a","r","t","i","s","a","n"," ","q","u","e","u","e",":","r","e","t","r","y"," ","5">>, <<"R","e","t","r","y"," ","s","p","e","c","i","f","i","c"," ","f","a","i","l","e","d"," ","j","o","b">>, <<"#","3","4","9","8","D","B">>>>),
       Row(<<<<"p","h","p"," ","a","r","t","i","s","a","n"," ","q","u","e","u","e",":","f","l","u","s","h">>, <<"D","e","l","e","t","e"," ","a","l","l"," ","f","a","i","l","e","d"," ","j","o","b","s">>, <<"#","E","7","4","C","3","C">>>>),
       Row(<<<<"p","h","p"," ","a","r","t","i","s","a","n"," ","q","u","e","u","e",":","c","l","e","a","r">>, <<"D","e","l","e","t","e"," ","a","l","l"," ","j","o","b","s"," ","f","r","o","m"," ","q","u","e","u","e">>, <<"#","E","7","4","C","3","C">>>>),
       Row(<<<<"p","h","p"," ","a","r","t","i","s","a","n"," ","m","a","k","e",":","j","o","b"," ","P","r","o","c","e","s","s","P","a","y","m","e","n","t">>, <<"C","r","e","a","t","e"," ","n","e","w"," ","j","o","b">>, <<"#","3","4","9","8","D","B">>>>),
       Row(<<<<"p","h","p"," ","a","r","t","i","s","a","n"," ","h","o","r","i","z","o","n">>, <<"S","t","a","r","t"," ","L","a","r","a","v","e","l"," ","H","o","r","i","z","o","n"," ","d","a","s","h","b","o","a","r","d">>, <<"#","2","7","A","E","6","0">>>>)
    >>

\* LaravelCheatSheetPDF.add_cache_commands: the rows of "Cache Management".
add_cache_commands ==
    <<
       Row(<<<<"C","a","c","h","e",":",":","p","u","t","(","'","k","e","y","'",","," ","'","v","a","l","u","e","'",","," ","3","6","0","0",")">>, <<"S","t","o","r","e"," ","c","a","c","h","e"," ","i","t","e","m">>, <<"#","3","4","9","8","D","B">>>>),
       Row(<<<<"C","a","c","h","e",":",":","g","e","t","(","'","k","e","y","'",")">>, <<"G","e","t"," ","c","a","c","h","e"," ","i","t","e","m">>, <<"#","3","4","9","8","D","B">>>>),
       Row(<<<<"C","a","c","h","e",":",":","r","e","m","e","m","b","e","r","(","'","k","e","y","'",","," ","3","6","0","0",","," ","f","n","(",")"," ","=",">"," ","e","x","p","e","n","s","i","v","e","_","o","p","e","r","a","t","i","o","n","(",")",")">>, <<"C","a","c","h","e"," ","w","i","t","h"," ","f","a","l","l","b","a","c","k">>, <<"#","3","4","9","8","D","B">>>>),
       Row(<<<<"C","a","c","h","e",":",":","f","o","r","g","e","t","(","'","k","e","y","'",")">>, <<"R","e","m","o","v","e"," ","c","a","c","h","e"," ","i","t","e","m">>, <<"#","3","4","9","8","D","B">>>>),
       Row(<<<<"C","a","c","h","e",":",":","f","l","u","s","h","(",")">>, <<"C","l","e","a","r"," ","a","l","l"," ","c","a","c","h","e">>, <<"#","3","4","9","8","D","B">>>>),
       Row(<<<<"p","h","p"," ","a","r","t","i","s","a","n"," ","c","a","c","h","e",":","c","l","e","a","r">>, <<"C","l","e","a","r"," ","a","p","p","l","i","c","a","t","i","o","n"," ","c","a","c","h","e">>, <<"#","3","4","9","8","D","B">>>>),
       Row(<<<<"p","h","p"," ","a","r","t","i","s","a","n"," ","c","a","c","h","e",":","f","o","r","g","e","t"," ","k","e","y">>, <<"F","o","r","g","e","t"," ","s","p","e","c","i","f","i","c"," ","c","a","c","h","e"," ","k","e","y">>, <<"#","E","7","4","C","3","C">>>>),
       Row(<<<<"C","a","c","h","e",":",":","t","a","g","s","(","[","'","p","e","o","p","l","e","'",","," ","'","a","r","t","i","s","t","s","'","]",")","-",">","p","u","t","(","'","J","o","h","n","'",","," ","$","j","o","h","n",","," ","6","0",")">>, <<"T","a","g","g","e","d"," ","c","a","c","h","e">>, <<"#","E","7","4","C","3","C">>>>),
       Row(<<<<"C","a","c","h","e",":",":","l","o","c","k","(","'","o","r","d","e","r","-","p","r","o","c","e","s","s","i","n","g","'",")","-",">","g","e","t","(","f","u","n","c","t","i","o","n"," ","(",")"," ","{",".",".",".","}",")">>, <<"C","a","c","h","e"," ","l","o","c","k","s">>, <<"#","2","7","A","E","6","0">>>>)
    >>

\* LaravelCheatSheetPDF.add_storage_commands: the rows of "Storage & Files".
add_storage_commands ==
    <<
       Row(<<<<"S","t","o","r","a","g","e",":",":","d","i","s","k","(","'","p","u","b","l","i","c","'",")","-",">","p","u","t","(","'","f","i","l","e",".","t","x","t","'",","," ","$","c","o","n","t","e","n","t","s",")">>, <<"S","t","o","r","e"," ","f","i","l","e">>, <<"#","3","4","9","8","D","B">>>>),
       Row(<<<<"S","t","o","r","a","g","e",":",":","g","e","t","(","'","f","i","l","e",".","t","x","t","'",")">>, <<"G","e","t"," ","f","i","l","e"," ","c","o","n","t","e","n","t","s">>, <<"#","3","4","9","8","D","B">>>>),
       Row(<<<<"S","t","o","r","a","g","e",":",":","d","o","w","n","l","o","a","d","(","'","f","i","l","e",".","t","x","t","'",")">>, <<"D","o","w","n","l","o","a","d"," ","f","i","l","e">>, <<"#","3","4","9","8","D","B">>>>),
       Row(<<<<"S","t","o","r","a","g","e",":",":","d","e","l","e","t","e","(","'","f","i","l","e",".","t","x","t","'",")">>, <<"D","e","l","e","t","e"," ","f","i","l","e">>, <<"#","3","4","9","8","D","B">>>>),
       Row(<<<<"S","t","o","r","a","g","e",":",":","e","x","i","s","t","s","(","'","f","i","l","e",".","t","x","t","'",")">>, <<"C","h","e","c","k"," ","i","f"," ","f","i","l","e"," ","e","x","i","s","t","s">>, <<"#","3","4","9","8","D","B">>>>),
       Row(<<<<"$","r","e","q","u","e","s","t","-",">","f","i","l","e","(","'","u","p","l","o","a","d","'",")","-",">","s","t","o","r","e","(","'","u","p","l","o","a","d","s","'",")">>, <<"S","t","o","r","e"," ","u","p","l","o","a","d","e","d"," ","f","i","l","e">>, <<"#","3","4","9","8","D","B">>>>),
       Row(<<<<"p","h","p"," ","a","r","t","i","s","a","n"," ","s","t","o","r","a","g","e",":","l","i","n","k">>, <<"C","r","e","a","t","e"," ","s","t","o","r","a","g","e"," ","s","y","m","l","i","n","k">>, <<"#","3","4","9","8","D","B">>>>),
       Row(<<<<"S","t","o","r","a","g","e",":",":","u","r","l","(","'","f","i","l","e",".","t","x","t","'",")">>, <<"G","e","t"," ","f","i","l","e"," ","U","R","L">>, <<"#","3","4","9","8","D","B">>>>),
       Row(<<<<"S","t","o","r","a","g","e",":",":","s","i","z","e","(","'","f","i","l","e",".","t","x","t","'",")">>, <<"G","e","t"," ","f","i","l","e"," ","s","i","z","e">>, <<"#","E","7","4","C","3","C">>>>),
       Row(<<<<"S","t","o","r","a","g","e",":",":","l","a","s","t","M","o","d","i","f","i","e","d","(","'","f","i","l","e",".","t","x","t","'",")">>, <<"G","e","t"," ","l","a","s","t"," ","m","o","d","i","f","i","e","d"," ","t","i","m","e">>, <<"#","E","7","4","C","3","C">>>>)
    >>

\* LaravelCheatSheetPDF.add_sail_commands: the rows of "Laravel Sail (Docker)".
add_sail_commands ==
    <<
       Row(<<<<".","/","v","e","n","d","o","r","/","b","i","n","/","s","a","i","l"," ","u","p">>, <<"S","t","a","r","t"," ","a","l","l"," ","s","e","r","v","i","c","e","s">>, <<"#","2","7","A","E","6","0">>>>),
       Row(<<<<".","/","v","e","n","d","o","r","/","b","i","n","/","s","a","i","l"," ","u","p"," ","-","d">>, <<"S","t","a","r","t"," ","s","e","r","v","i","c","e","s"," ","i","n"," ","b","a","c","k","g","r","o","u","n","d">>, <<"#","2","7","A","E","6","0">>>>),
       Row(<<<<".","/","v","e","n","d","o","r","/","b","i","n","/","s","a","i","l"," ","d","o","w","n">>, <<"S","t","o","p"," ","a","l","l"," ","s","e","r","v","i","c","e","s">>, <<"#","2","7","A","E","6","0">>>>),
       Row(<<<<".","/","v","e","n","d","o","r","/","b","i","n","/","s","a","i","l"," ","a","r","t","i","s","a","n"," ","m","i","g","r","a","t","e">>, <<"R","u","n"," ","m","i","g","r","a","t","i","o","n","s"," ","i","n"," ","c","o","n","t","a","i","n","e","r">>, <<"#","2","7","A","E","6","0">>>>),
       Row(<<<<".","/","v","e","n","d","o","r","/","b","i","n","/","s","a","i","l"," ","c","o","m","p","o","s","e","r"," ","i","n","s","t","a","l","l">>, <<"I","n","s","t","a","l","l"," ","d","e","p","e","n","d","e","n","c","i","e","s"," ","i","n"," ","c","o","n","t","a","i","n","e","r">>, <<"#","2","7","A","E","6","0">>>>),
       Row(<<<<".","/","v","e","n","d","o","r","/","b","i","n","/","s","a","i","l"," ","n","p","m"," ","r","u","n"," ","d","e","v">>, <<"R","u","n"," ","n","p","m"," ","i","n"," ","c","o","n","t","a","i","n","e","r">>, <<"#","2","7","A","E","6","0">>>>),
       Row(<<<<".","/","v","e","n","d","o","r","/","b","i","n","/","s","a","i","l"," ","t","e","s","t">>, <<"R","u","n"," ","t","e","s","t","s"," ","i","n"," ","c","o","n","t","a","i","n","e","r">>, <<"#","2","7","A","E","6","0">>>>),
       Row(<<<<".","/","v","e","n","d","o","r","/","b","i","n","/","s","a","i","l"," ","s","h","e","l","l">>, <<"A","c","c","e","s","s"," ","c","o","n","t","a","i","n","e","r"," ","s","h","e","l","l">>, <<"#","2","7","A","E","6","0">>>>),
       Row(<<<<".","/","v","e","n","d","o","r","/","b","i","n","/","s","a","i","l"," ","m","y","s","q","l">>, <<"A","c","c","e","s","s"," ","M","y","S","Q","L"," ","i","n"," ","c","o","n","t","a","i","n","e","r">>, <<"#","2","7","A","E","6","0">>>>),
       Row(<<<<".","/","v","e","n","d","o","r","/","b","i","n","/","s","a","i","l"," ","r","e","d","i","s">>, <<"A","c","c","e","s","s"," ","R","e","d","i","s"," ","i","n"," ","c","o","n","t","a","i","n","e","r">>, <<"#","2","7","A","E","6","0">>>>)
    >>

\* LaravelCheatSheetPDF.add_testing_commands: the rows of "Testing".
add_testing_commands ==
    <<
       Row(<<<<"p","h","p"," ","a","r","t","i","s","a","n"," ","m","a","k","e",":","t","e","s","t"," ","U","s","e","r","T","e","s","t">>, <<"C","r","e","a","t","e"," ","t","e","s","t"," ","c","l","a","s","s">>, <<"#","3","4","9","8","D","B">>>>),
       Row(<<<<"p","h","p"," ","a","r","t","i","s","a","n"," ","t","e","s","t">>, <<"R","u","n"," ","a","l","l"," ","t","e","s","t","s">>, <<"#","3","4","9","8","D","B">>>>),
       Row(<<<<"p","h","p"," ","a","r","t","i","s","a","n"," ","t","e","s","t"," ","-","-","f","i","l","t","e","r","=","U","s","e","r","T","e","s","t">>, <<"R","u","n"," ","s","p","e","c","i","f","i","c"," ","t","e","s","t">>, <<"#","3","4","9","8","D","B">>>>),
       Row(<<<<"$","t","h","i","s","-",">","a","s","s","e","r","t","E","q","u","a","l","s","(","$","e","x","p","e","c","t","e","d",","," ","$","a","c","t","u","a","l",")">>, <<"A","s","s","e","r","t"," ","e","q","u","a","l","i","t","y">>, <<"#","3","4","9","8","D","B">>>>),
       Row(<<<<"$","t","h","i","s","-",">","a","s","s","e","r","t","T","r","u","e","(","$","c","o","n","d","i","t","i","o","n",")">>, <<"A","s","s","e","r","t"," ","t","r","u","e">>, <<"#","3","4","9","8","D","B">>>>),
       Row(<<<<"$","t","h","i","s","-",">","a","s","s","e","r","t","D","a","t","a","b","a","s","e","H","a","s","(","'","u","s","e","r","s","'",","," ","[",".",".",".","]",")">>, <<"A","s","s","e","r","t"," ","d","a","t","a","b","a","s","e"," ","r","e","c","o","r","d"," ","e","x","i","s","t","s">>, <<"#","3","4","9","8","D","B">>>>),
       Row(<<<<"$","t","h","i","s","-",">","g","e","t","(","'","/","u","s","e","r","s","'",")">>, <<"M","a","k","e"," ","G","E","T"," ","r","e","q","u","e","s","t"," ","i","n"," ","t","e","s","t">>, <<"#","3","4","9","8","D","B">>>>),
       Row(<<<<"$","t","h","i","s","-",">","p","o","s","t","(","'","/","u","s","e","r","s","'",","," ","$","d","a","t","a",")">>, <<"M","a","k","e"," ","P","O","S","T"," ","r","e","q","u","e","s","t"," ","i","n"," ","t","e","s","t">>, <<"#","3","4","9","8","D","B">>>>),
       Row(<<<<"$","t","h","i","s","-",">","a","c","t","i","n","g","A","s","(","$","u","s","e","r",")">>, <<"A","u","t","h","e","n","t","i","c","a","t","e"," ","u","s","e","r"," ","i","n"," ","t","e","s","t">>, <<"#","3","4","9","8","D","B">>>>),
       Row(<<<<"$","t","h","i","s","-",">","a","s","s","e","r","t","R","e","d","i","r","e","c","t","(","'","/","d","a","s","h","b","o","a","r","d","'",")">>, <<"A","s","s","e","r","t"," ","r","e","d","i","r","e","c","t">>, <<"#","3","4","9","8","D","B">>>>)
    >>

\* LaravelCheatSheetPDF.add_inertia_commands: the rows of "Inertia.js Integration".
add_inertia_commands ==
    <<
       Row(<<<<"c","o","m","p","o","s","e","r"," ","r","e","q","u","i","r","e"," ","i","n","e","r","t","i","a","j","s","/","i","n","e","r","t","i","a","-","l","a","r","a","v","e","l">>, <<"I","n","s","t","a","l","l"," ","I","n","e","r","t","i","a",".","j","s"," ","L","a","r","a","v","e","l"," ","a","d","a","p","t","e","r">>, <<"#","2","7","A","E","6","0">>>>),
       Row(<<<<"p","h","p"," ","a","r","t","i","s","a","n"," ","i","n","e","r","t","i","a",":","m","i","d","d","l","e","w","a","r","e">>, <<"C","r","e","a","t","e"," ","I","n","e","r","t","i","a"," ","m","i","d","d","l","e","w","a","r","e">>, <<"#","2","7","A","E","6","0">>>>),
       Row(<<<<"n","p","m"," ","i","n","s","t","a","l","l"," ","@","i","n","e","r","t","i","a","j","s","/","v","u","e","3">>, <<"I","n","s","t","a","l","l"," ","I","n","e","r","t","i","a"," ","V","u","e"," ","3"," ","a","d","a","p","t","e","r">>, <<"#","2","7","A","E","6","0">>>>),
       Row(<<<<"n","p","m"," ","i","n","s","t","a","l","l"," ","@","i","n","e","r","t","i","a","j","s","/","r","e","a","c","t">>, <<"I","n","s","t","a","l","l"," ","I","n","e","r","t","i","a"," ","R","e","a","c","t"," ","a","d","a","p","t","e","r">>, <<"#","2","7","A","E","6","0">>>>),
       Row(<<<<"I","n","e","r","t","i","a",":",":","r","e","n","d","e","r","(","'","U","s","e","r","s","/","I","n","d","e","x","'",","," ","[","'","u","s","e","r","s","'"," ","=",">"," ","$","u","s","e","r","s","]",")">>, <<"R","e","n","d","e","r"," ","I","n","e","r","t","i","a"," ","p","a","g","e"," ","w","i","t","h"," ","d","a","t","a">>, <<"#","3","4","9","8","D","B">>>>),
       Row(<<<<"r","e","t","u","r","n"," ","i","n","e","r","t","i","a","(","'","U","s","e","r","s","/","S","h","o","w","'",","," ","c","o","m","p","a","c","t","(","'","u","s","e","r","'",")",")">>, <<"R","e","t","u","r","n"," ","I","n","e","r","t","i","a"," ","r","e","s","p","o","n","s","e"," ","(","h","e","l","p","e","r",")">>, <<"#","3","4","9","8","D","B">>>>),
       Row(<<<<"I","n","e","r","t","i","a",":",":","l","o","c","a","t","i","o","n","(","'","/","d","a","s","h","b","o","a","r","d","'",")">>, <<"R","e","d","i","r","e","c","t"," ","w","i","t","h"," ","I","n","e","r","t","i","a">>, <<"#","3","4","9","8","D","B">>>>),
       Row(<<<<"$","r","e","q","u","e","s","t","-",">","h","e","a","d","e","r","(","'","X","-","I","n","e","r","t","i","a","'",")">>, <<"C","h","e","c","k"," ","i","f"," ","r","e","q","u","e","s","t"," ","i","s"," ","f","r","o","m"," ","I","n","e","r","t","i","a">>, <<"#","E","7","4","C","3","C">>>>),
       Row(<<<<"I","n","e","r","t","i","a",":",":","s","h","a","r","e","(","'","a","u","t","h",".","u","s","e","r","'",","," ","f","n","(",")"," ","=",">"," ","a","u","t","h","(",")","-",">","u","s","e","r","(",")",")">>, <<"S","h","a","r","e"," ","d","a","t","a"," ","g","l","o","b","a","l","l","y">>, <<"#","3","4","9","8","D","B">>>>),
       Row(<<<<"I","n","e","r","t","i","a",":",":","v","e","r","s","i","o","n","(","f","n","(",")"," ","=",">"," ","m","d","5","_","f","i","l","e","(","p","u","b","l","i","c","_","p","a","t","h","(","'","m","i","x","-","m","a","n","i","f","e","s","t",".","j","s","o","n","'",")",")",")">>, <<"A","s","s","e","t"," ","v","e","r","s","i","o","n","i","n","g">>, <<"#","E","7","4","C","3","C">>>>),
       Row(<<<<"<","H","e","a","d"," ","t","i","t","l","e","=","'","P","a","g","e"," ","T","i","t","l","e","'"," ","/",">">>, <<"S","e","t"," ","p","a","g","e"," ","t","i","t","l","e"," ","(","V","u","e","/","R","e","a","c","t",")">>, <<"#","3","4","9","8","D","B">>>>),
       Row(<<<<"$","p","a","g","e",".","p","r","o","p","s",".","u","s","e","r">>, <<"A","c","c","e","s","s"," ","s","h","a","r","e","d"," ","p","r","o","p","s"," ","(","V","u","e","/","R","e","a","c","t",")">>, <<"#","3","4","9","8","D","B">>>>),
       Row(<<<<"i","m","p","o","r","t"," ","{"," ","L","i","n","k"," ","}"," ","f","r","o","m"," ","'","@","i","n","e","r","t","i","a","j","s","/","v","u","e","3","'">>, <<"I","n","e","r","t","i","a"," ","L","i","n","k"," ","c","o","m","p","o","n","e","n","t"," ","(","V","u","e",")">>, <<"#","3","4","9","8","D","B">>>>),
       Row(<<<<"i","m","p","o","r","t"," ","{"," ","r","o","u","t","e","r"," ","}"," ","f","r","o","m"," ","'","@","i","n","e","r","t","i","a","j","s","/","v","u","e","3","'">>, <<"I","n","e","r","t","i","a"," ","r","o","u","t","e","r"," ","(","V","u","e",")">>, <<"#","3","4","9","8","D","B">>>>),
       Row(<<<<"r","o","u","t","e","r",".","v","i","s","i","t","(","'","/","u","s","e","r","s","'",")">>, <<"P","r","o","g","r","a","m","m","a","t","i","c"," ","n","a","v","i","g","a","t","i","o","n">>, <<"#","3","4","9","8","D","B">>>>),
       Row(<<<<"r","o","u","t","e","r",".","p","o","s","t","(","'","/","u","s","e","r","s","'",","," ","f","o","r","m",")">>, <<"P","O","S","T"," ","r","e","q","u","e","s","t"," ","w","i","t","h"," ","I","n","e","r","t","i","a">>, <<"#","3","4","9","8","D","B">>>>),
       Row(<<<<"$","p","a","g","e",".","p","r","o","p","s",".","e","r","r","o","r","s">>, <<"A","c","c","e","s","s"," ","v","a","l","i","d","a","t","i","o","n"," ","e","r","r","o","r","s">>, <<"#","3","4","9","8","D","B">>>>)
    >>

\* LaravelCheatSheetPDF.add_livewire_commands: the rows of "Livewire Components".
add_livewire_commands ==
    <<
       Row(<<<<"c","o","m","p","o","s","e","r"," ","r","e","q","u","i","r","e"," ","l","i","v","e","w","i","r","e","/","l","i","v","e","w","i","r","e">>, <<"I","n","s","t","a","l","l"," ","L","i","v","e","w","i","r","e">>, <<"#","2","7","A","E","6","0">>>>),
       Row(<<<<"p","h","p"," ","a","r","t","i","s","a","n"," ","m","a","k","e",":","l","i","v","e","w","i","r","e"," ","C","o","u","n","t","e","r">>, <<"C","r","e","a","t","e"," ","L","i","v","e","w","i","r","e"," ","c","o","m","p","o","n","e","n","t">>, <<"#","2","7","A","E","6","0">>>>),
       Row(<<<<"p","h","p"," ","a","r","t","i","s","a","n"," ","m","a","k","e",":","l","i","v","e","w","i","r","e"," ","U","s","e","r","s","/","I","n","d","e","x">>, <<"C","r","e","a","t","e"," ","n","e","s","t","e","d"," ","L","i","v","e","w","i","r","e"," ","c","o","m","p","o","n","e","n","t">>, <<"#","2","7","A","E","6","0">>>>),
       Row(<<<<"<","l","i","v","e","w","i","r","e",":","c","o","u","n","t","e","r"," ","/",">">>, <<"R","e","n","d","e","r"," ","L","i","v","e","w","i","r","e"," ","c","o","m","p","o","n","e","n","t">>, <<"#","3","4","9","8","D","B">>>>),
       Row(<<<<"@","l","i","v","e","w","i","r","e","(","'","c","o","u","n","t","e","r","'",")">>, <<"R","e","n","d","e","r"," ","w","i","t","h"," ","B","l","a","d","e"," ","d","i","r","e","c","t","i","v","e">>, <<"#","3","4","9","8","D","B">>>>),
       Row(<<<<"p","u","b","l","i","c"," ","$","c","o","u","n","t"," ","="," ","0",";">>, <<"D","e","f","i","n","e"," ","p","u","b","l","i","c"," ","p","r","o","p","e","r","t","y">>, <<"#","3","4","9","8","D","B">>>>),
       Row(<<<<"p","u","b","l","i","c"," ","f","u","n","c","t","i","o","n"," ","i","n","c","r","e","m","e","n","t","(",")"," ","{"," ","$","t","h","i","s","-",">","c","o","u","n","t","+","+",";"," ","}">>, <<"D","e","f","i","n","e"," ","a","c","t","i","o","n"," ","m","e","t","h","o","d">>, <<"#","3","4","9","8","D","B">>>>),
       Row(<<<<"w","i","r","e",":","c","l","i","c","k","=","'","i","n","c","r","e","m","e","n","t","'">>, <<"W","i","r","e"," ","c","l","i","c","k"," ","e","v","e","n","t">>, <<"#","3","4","9","8","D","B">>>>),
       Row(<<<<"w","i","r","e",":","m","o","d","e","l","=","'","n","a","m","e","'">>, <<"T","w","o","-","w","a","y"," ","d","a","t","a"," ","b","i","n","d","i","n","g">>, <<"#","3","4","9","8","D","B">>>>),
       Row(<<<<"w","i","r","e",":","s","u","b","m","i","t",".","p","r","e","v","e","n","t","=","'","s","a","v","e","'">>, <<"W","i","r","e"," ","f","o","r","m"," ","s","u","b","m","i","s","s","i","o","n">>, <<"#","3","4","9","8","D","B">>>>),
       Row(<<<<"$","t","h","i","s","-",">","v","a","l","i","d","a","t","e","(","[","'","n","a","m","e","'"," ","=",">"," ","'","r","e","q","u","i","r","e","d","'","]",")",";">>, <<"V","a","l","i","d","a","t","e"," ","i","n"," ","L","i","v","e","w","i","r","e">>, <<"#","3","4","9","8","D","B">>>>),
       Row(<<<<"$","t","h","i","s","-",">","e","m","i","t","(","'","u","s","e","r","S","a","v","e","d","'",")",";">>, <<"E","m","i","t"," ","e","v","e","n","t">>, <<"#","3","4","9","8","D","B">>>>),
       Row(<<<<"p","r","o","t","e","c","t","e","d"," ","$","l","i","s","t","e","n","e","r","s"," ","="," ","[","'","u","s","e","r","S","a","v","e","d","'"," ","=",">"," ","'","r","e","f","r","e","s","h","U","s","e","r","s","'","]",";">>, <<"L","i","s","t","e","n"," ","t","o"," ","e","v","e","n","t","s">>, <<"#","3","4","9","8","D","B">>>>),
       Row(<<<<"w","i","r","e",":","l","o","a","d","i","n","g">>, <<"S","h","o","w"," ","l","o","a","d","i","n","g"," ","s","t","a","t","e">>, <<"#","3","4","9","8","D","B">>>>),
       Row(<<<<"w","i","r","e",":","o","f","f","l","i","n","e">>, <<"S","h","o","w"," ","o","f","f","l","i","n","e"," ","s","t","a","t","e">>, <<"#","E","7","4","C","3","C">>>>),
       Row(<<<<"$","t","h","i","s","-",">","s","k","i","p","R","e","n","d","e","r","(",")",";">>, <<"S","k","i","p"," ","c","o","m","p","o","n","e","n","t"," ","r","e","-","r","e","n","d","e","r">>, <<"#","E","7","4","C","3","C">>>>)
    >>

\* LaravelCheatSheetPDF.add_deployment_commands: the rows of "Deployment & Optimization".
add_deployment_commands ==
    <<
       Row(<<<<"p","h","p"," ","a","r","t","i","s","a","n"," ","c","o","n","f","i","g",":","c","a","c","h","e">>, <<"C","a","c","h","e"," ","c","o","n","f","i","g","u","r","a","t","i","o","n">>, <<"#","3","4","9","8","D","B">>>>),
       Row(<<<<"p","h","p"," ","a","r","t","i","s","a","n"," ","r","o","u","t","e",":","c","a","c","h","e">>, <<"C","a","c","h","e"," ","r","o","u","t","e","s">>, <<"#","3","4","9","8","D","B">>>>),
       Row(<<<<"p","h","p"," ","a","r","t","i","s","a","n"," ","v","i","e","w",":","c","a","c","h","e">>, <<"C","a","c","h","e"," ","v","i","e","w","s">>, <<"#","3","4","9","8","D","B">>>>),
       Row(<<<<"p","h","p"," ","a","r","t","i","s","a","n"," ","c","o","n","f","i","g",":","c","l","e","a","r">>, <<"C","l","e","a","r"," ","c","o","n","f","i","g"," ","c","a","c","h","e">>, <<"#","3","4","9","8","D","B">>>>),
       Row(<<<<"p","h","p"," ","a","r","t","i","s","a","n"," ","r","o","u","t","e",":","c","l","e","a","r">>, <<"C","l","e","a","r"," ","r","o","u","t","e"," ","c","a","c","h","e">>, <<"#","3","4","9","8","D","B">>>>),
       Row(<<<<"p","h","p"," ","a","r","t","i","s","a","n"," ","v","i","e","w",":","c","l","e","a","r">>, <<"C","l","e","a","r"," ","v","i","e","w"," ","c","a","c","h","e">>, <<"#","3","4","9","8","D","B">>>>),
       Row(<<<<"p","h","p"," ","a","r","t","i","s","a","n"," ","c","a","c","h","e",":","c","l","e","a","r">>, <<"C","l","e","a","r"," ","a","p","p","l","i","c","a","t","i","o","n"," ","c","a","c","h","e">>, <<"#","3","4","9","8","D","B">>>>),
       Row(<<<<"c","o","m","p","o","s","e","r"," ","i","n","s","t","a","l","l"," ","-","-","o","p","t","i","m","i","z","e","-","a","u","t","o","l","o","a","d","e","r"," ","-","-","n","o","-","d","e","v">>, <<"O","p","t","i","m","i","z","e"," ","f","o","r"," ","p","r","o","d","u","c","t","i","o","n">>, <<"#","3","4","9","8","D","B">>>>),
       Row(<<<<"p","h","p"," ","a","r","t","i","s","a","n"," ","m","i","g","r","a","t","e"," ","-","-","f","o","r","c","e">>, <<"R","u","n"," ","m","i","g","r","a","t","i","o","n","s"," ","i","n"," ","p","r","o","d","u","c","t","i","o","n">>, <<"#","3","4","9","8","D","B">>>>),
       Row(<<<<"n","p","m"," ","r","u","n"," ","b","u","i","l","d">>, <<"B","u","i","l","d"," ","a","s","s","e","t","s"," ","f","o","r"," ","p","r","o","d","u","c","t","i","o","n">>, <<"#","3","4","9","8","D","B">>>>)
    >>

\* The rows of the section with the given title.
SourceRows(title) ==
    CASE title = "Basic Git Operations" -> add_basic_commands
      [] title = "Branching & Merging" -> add_branching_commands
      [] title = "Remote Repository Operations" -> add_remote_commands
      [] title = "Inspection & Comparison" -> add_inspection_commands
      [] title = "Undoing Changes" -> add_undoing_commands
      [] title = "Stashing" -> add_stashing_commands
      [] title = "Advanced Commands" -> add_advanced_commands
      [] title = "Configuration" -> add_configuration_commands
      [] title = "Installation & Setup" -> add_installation_commands
      [] title = "Artisan Commands" -> add_artisan_commands
      [] title = "Routing" -> add_routing_commands
      [] title = "Database & Migrations" -> add_database_commands
      [] title = "Eloquent ORM" -> add_eloquent_commands
      [] title = "Blade Templates" -> add_blade_commands
      [] title = "Authentication" -> add_auth_commands
      [] title = "Middleware" -> add_middleware_commands
      [] title = "Validation Rules" -> add_validation_commands
      [] title = "API Development" -> add_api_commands
      [] title = "Queues & Jobs" -> add_queue_commands
      [] title = "Cache Management" -> add_cache_commands
      [] title = "Storage & Files" -> add_storage_commands
      [] title = "Laravel Sail (Docker)" -> add_sail_commands
      [] title = "Testing" -> add_testing_commands
      [] title = "Inertia.js Integration" -> add_inertia_commands
      [] title = "Livewire Components" -> add_livewire_commands
      [] title = "Deployment & Optimization" -> add_deployment_commands
      [] OTHER -> <<>>

SourceGens == {"Git", "Laravel"}

\* The builder calls of the add_* methods, in the order of generate_pdf.
SourceCalls(g) ==
    IF g \notin SourceGens THEN {}
    ELSE { [title |-> Plan(g)[n].title, rows |-> SourceRows(Plan(g)[n].title),
            col_widths |-> Plan(g)[n].widths,
            dangerous_commands |-> Plan(g)[n].danger] :
           n \in {m \in 1..Len(Plan(g)) : Plan(g)[m].op = "section"} }

\* Arguments of a builder call: the bounded inputs and the script's own calls.
CallArgs(g) ==
    { [title |-> "Section", rows |-> rows, col_widths |-> w, dangerous_commands |-> d] :
      rows \in RowLists(g), w \in WidthArgs(g), d \in DangerArgs(g) }
    \cup SourceCalls(g)

(***************************************************************************)
(* SpecTable: a constructed instance, add_title and one builder call.      *)
(***************************************************************************)
InitTable ==
    /\ gen \in Generators
    /\ pc = "ready"
    /\ story = <<>>
    /\ styles = SampleStyles \cup CustomStyles(gen)
    /\ exc = "None"
    /\ call = NoCall
    /\ step = 0
    /\ reportlab = TRUE
    /\ fault = "none"
    /\ platformName = "Linux"
    /\ fileWritten = FALSE
    /\ document = NoDocument
    /\ output = <<>>
    /\ viewer = <<>>
    /\ laid = 0
    /\ curPage = 1
    /\ pageStart = <<>>
    /\ pageEnd = <<>>
    /\ colors = ColorTable(gen)
    /\ other = NoInstance
    /\ defaults = ModuleDefaults(gen)

\* add_title() on the fresh instance.
TableAddTitle ==
    /\ pc = "ready"
    /\ story = <<>>
    /\ story' = add_title(gen, story)
    /\ UNCHANGED <<gen, pc, styles, exc, call>>
    /\ UNCHANGED runVars
    /\ UNCHANGED pairVars

\* One call of the instance's table builder.
BuilderCall(g) ==
    /\ pc = "ready"
    /\ gen = g
    /\ \E a \in CallArgs(g) :
         LET r == create_table(g, story, a.title, a.rows, a.col_widths,
                               a.dangerous_commands)
         IN  /\ story' = r.story
             /\ exc' = r.exc
             /\ call' = [title |-> a.title, rows |-> a.rows, col_widths |-> a.col_widths,
                         dangerous_commands |-> a.dangerous_commands, before |-> story]
    /\ pc' = "called"
    /\ UNCHANGED <<gen, styles>>
    /\ UNCHANGED runVars
    /\ UNCHANGED pairVars

NextTable ==
    \/ TableAddTitle
    \/ \E g \in Generators : BuilderCall(g)

SpecTable == InitTable /\ [][NextTable]_vars

(***************************************************************************)
(* Spec: one run of a generator script.                                    *)
(***************************************************************************)
\* Values of platform.system(): the two the code names and two others.
Platforms == {"Darwin", "Windows", "Linux", "FreeBSD"}

Init ==
    /\ gen \in Generators
    /\ reportlab \in BOOLEAN
    /\ pc = "import"
    /\ story = <<>>
    /\ styles = {}
    /\ exc = "None"
    /\ call = NoCall
    /\ step = 0
    /\ fault = "none"
    /\ platformName = "unknown"
    /\ fileWritten = FALSE
    /\ document = NoDocument
    /\ output = <<>>
    /\ viewer = <<>>
    /\ laid = 0
    /\ curPage = 1
    /\ pageStart = <<>>
    /\ pageEnd = <<>>
    /\ colors = NoColors
    /\ other = NoInstance
    /\ defaults = NoWidths

\* The module-level imports: without reportlab the ImportError is raised
\* before main is defined, outside every try block.
ModuleImport ==
    /\ pc = "import"
    /\ IF reportlab
       THEN pc' = "main" /\ exc' = exc /\ defaults' = ModuleDefaults(gen)
       ELSE pc' = "traceback" /\ exc' = "ImportError" /\ defaults' = defaults
    /\ UNCHANGED <<gen, story, styles, call>>
    /\ UNCHANGED runVars
    /\ UNCHANGED <<colors, other>>

\* main: pdf_generator = XCheatSheetPDF(...): __init__ and create_custom_styles.
Construct ==
    /\ pc = "main"
    /\ story' = <<>>
    /\ LET r == create_custom_styles(gen)
       IN  /\ styles' = r.names
           /\ exc' = r.exc
           /\ pc' = IF r.exc = "None" THEN "generate" ELSE "except"
    /\ step' = 1
    /\ UNCHANGED <<gen, call, reportlab, fault, platformName, fileWritten, document,
                   output, viewer, laid, curPage, pageStart, pageEnd>>
    /\ colors' = ColorTable(gen)
    /\ UNCHANGED <<other, defaults>>

AtStmt(op) ==
    /\ pc = "generate"
    /\ step <= Len(Plan(gen))
    /\ Plan(gen)[step].op = op

\* generate_pdf: self.add_title()
AddTitle ==
    /\ AtStmt("title")
    /\ story' = add_title(gen, story)
    /\ step' = step + 1
    /\ UNCHANGED <<gen, pc, styles, exc, call, reportlab, fault, platformName,
                   fileWritten, document, output, viewer, laid, curPage, pageStart, pageEnd>>
    /\ UNCHANGED pairVars

\* generate_pdf: one self.add_*_commands() / add_*_properties(), which calls
\* the table builder; an exception leaves generate_pdf.
AddSection ==
    /\ AtStmt("section")
    /\ \E rows \in RunRowLists(gen) :
         LET stmt == Plan(gen)[step]
             r == create_table(gen, story, stmt.title, rows, stmt.widths, stmt.danger)
         IN  /\ story' = r.story
             /\ exc' = r.exc
             /\ call' = [title |-> stmt.title, rows |-> rows, col_widths |-> stmt.widths,
                         dangerous_commands |-> stmt.danger, before |-> story]
             /\ IF r.exc = "None"
                THEN pc' = pc /\ step' = step + 1
                ELSE pc' = "except" /\ step' = step
    /\ UNCHANGED <<gen, styles, reportlab, fault, platformName, fileWritten, document,
                   output, viewer, laid, curPage, pageStart, pageEnd>>
    /\ UNCHANGED pairVars

\* A page-break statement that appends two PageBreaks.
AppendPageBreakTwice ==
    /\ AtStmt("pagebreak")
    /\ story' = StoryAppend(StoryAppend(story, PageBreak), PageBreak)
    /\ step' = step + 1
    /\ UNCHANGED <<gen, pc, styles, exc, call, reportlab, fault, platformName,
                   fileWritten, document, output, viewer, laid, curPage, pageStart, pageEnd>>
    /\ UNCHANGED pairVars

\* generate_pdf: self.story.append(PageBreak())
AppendPageBreak ==
    /\ AtStmt("pagebreak")
    /\ story' = StoryAppend(story, PageBreak)
    /\ step' = step + 1
    /\ UNCHANGED <<gen, pc, styles, exc, call, reportlab, fault, platformName,
                   fileWritten, document, output, viewer, laid, curPage, pageStart, pageEnd>>
    /\ UNCHANGED pairVars

\* generate_pdf: a callout (workflows, examples, tips).
AddCallout ==
    /\ AtStmt("callout")
    /\ LET stmt == Plan(gen)[step]
           s1 == StoryAppend(story, Callout(stmt.title))
       IN  story' = IF stmt.spacer THEN StoryAppend(s1, Spacer((3 * cm) \div 10)) ELSE s1
    /\ step' = step + 1
    /\ UNCHANGED <<gen, pc, styles, exc, call, reportlab, fault, platformName,
                   fileWritten, document, output, viewer, laid, curPage, pageStart, pageEnd>>
    /\ UNCHANGED pairVars

\* generate_pdf: self.doc.build(self.story) is entered.
DocBuildBegin ==
    /\ pc = "generate"
    /\ step = Len(Plan(gen)) + 1
    /\ pc' = "build"
    /\ laid' = 0
    /\ curPage' = 1
    /\ pageStart' = <<>>
    /\ pageEnd' = <<>>
    /\ UNCHANGED <<gen, story, styles, exc, call, step, reportlab, fault,
                   platformName, fileWritten, document, output, viewer>>
    /\ UNCHANGED pairVars

NumBreaks(s) == Cardinality({i \in 1..Len(s) : s[i].kind = "PageBreak"})

\* Automatic page wraps so far in this build.
Overflows == (curPage - 1) - NumBreaks(SubSeq(story, 1, laid))

\* The page that follows a PageBreak laid out on page p.
AfterPageBreak(p) == p + 1

\* doc.build lays out the next flowable of the story: a PageBreak ends the
\* page; any other flowable fits on the current page, is moved whole to the
\* next page, or (a table or paragraph) is split over the two.
LayoutFlowable ==
    /\ pc = "build"
    /\ laid < Len(story)
    /\ LET f == story[laid + 1]
       IN  IF f.kind = "PageBreak"
           THEN /\ pageStart' = Append(pageStart, curPage)
                /\ pageEnd' = Append(pageEnd, curPage)
                /\ curPage' = AfterPageBreak(curPage)
           ELSE \/ /\ pageStart' = Append(pageStart, curPage)
                   /\ pageEnd' = Append(pageEnd, curPage)
                   /\ curPage' = curPage
                \/ /\ Overflows < MaxOverflow
                   /\ pageStart' = Append(pageStart, curPage + 1)
                   /\ pageEnd' = Append(pageEnd, curPage + 1)
                   /\ curPage' = curPage + 1
                \/ /\ Overflows < MaxOverflow
                   /\ f.kind \in {"Table", "Paragraph"}
                   /\ pageStart' = Append(pageStart, curPage)
                   /\ pageEnd' = Append(pageEnd, curPage + 1)
                   /\ curPage' = curPage + 1
    /\ laid' = laid + 1
    /\ UNCHANGED <<gen, pc, story, styles, exc, call, step, reportlab, fault,
                   platformName, fileWritten, document, output, viewer>>
    /\ UNCHANGED pairVars

\* doc.build writes the file once every flowable is laid out, and returns:
\* its layout state is gone, the page count stays with the document.
SaveDocument ==
    /\ pc = "build"
    /\ laid = Len(story)
    /\ fileWritten' = TRUE
    /\ \E t \in Clock : document' = PDFDocument(story, t)
    /\ pc' = "print_generated"
    /\ laid' = 0
    /\ pageStart' = <<>>
    /\ pageEnd' = <<>>
    /\ UNCHANGED <<gen, story, styles, exc, call, step, reportlab, fault,
                   platformName, output, viewer, curPage>>
    /\ UNCHANGED pairVars

\* doc.build cannot write the file (unwritable path): OSError.
SaveFails ==
    /\ pc = "build"
    /\ laid = Len(story)
    /\ fault' = "save"
    /\ exc' = "OSError"
    /\ pc' = "except"
    /\ laid' = 0
    /\ pageStart' = <<>>
    /\ pageEnd' = <<>>
    /\ UNCHANGED <<gen, story, styles, call, step, reportlab, platformName,
                   fileWritten, document, output, viewer, curPage>>
    /\ UNCHANGED pairVars

\* generate_pdf: the success line after doc.build, and return.
PrintGenerated ==
    /\ pc = "print_generated"
    /\ output' = Append(output, "generated successfully")
    /\ pc' = "summary"
    /\ UNCHANGED <<gen, story, styles, exc, call, step, reportlab, fault,
                   platformName, fileWritten, document, viewer, laid, curPage, pageStart, pageEnd>>
    /\ UNCHANGED pairVars

\* main: the three summary lines; the second one queries the file size.
PrintSummary ==
    /\ pc = "summary"
    /\ output' = output \o <<"PDF created", "File size", "Created">>
    /\ pc' = "viewer"
    /\ UNCHANGED <<gen, story, styles, exc, call, step, reportlab, fault,
                   platformName, fileWritten, document, viewer, laid, curPage, pageStart, pageEnd>>
    /\ UNCHANGED pairVars

\* main: os.path.getsize raises OSError (the file is gone or unreadable).
GetSizeFails ==
    /\ pc = "summary"
    /\ output' = Append(output, "PDF created")
    /\ fault' = "getsize"
    /\ exc' = "OSError"
    /\ pc' = "except"
    /\ UNCHANGED <<gen, story, styles, call, step, reportlab, platformName,
                   fileWritten, document, viewer, laid, curPage, pageStart, pageEnd>>
    /\ UNCHANGED pairVars

\* A choice of viewer that knows no Windows branch.
ViewerCommandUnix(p) == IF p = "Darwin" THEN "open" ELSE "xdg-open"

ViewerCommand(p) ==
    IF p = "Darwin" THEN "open"
    ELSE IF p = "Windows" THEN "start"
    ELSE "xdg-open"

\* main: import platform, then os.system with the viewer of the platform.
OpenViewer ==
    /\ pc = "viewer"
    /\ \E p \in Platforms :
         /\ platformName' = p
         /\ viewer' = Append(viewer, ViewerCommand(p))
    /\ pc' = "done"
    /\ UNCHANGED <<gen, story, styles, exc, call, step, reportlab, fault,
                   fileWritten, document, output, laid, curPage, pageStart, pageEnd>>
    /\ UNCHANGED pairVars

\* main: the import statement inside the try block fails.
ImportPlatformFails ==
    /\ pc = "viewer"
    /\ fault' = "import"
    /\ exc' = "ImportError"
    /\ pc' = "except"
    /\ UNCHANGED <<gen, story, styles, call, step, reportlab, platformName,
                   fileWritten, document, output, viewer, laid, curPage, pageStart, pageEnd>>
    /\ UNCHANGED pairVars

\* main: except ImportError
HandleImportError ==
    /\ pc = "except"
    /\ exc = "ImportError"
    /\ output' = output \o <<"Required library not found", "Install required packages with:",
                             "pip install reportlab", "Error details">>
    /\ pc' = "done"
    /\ UNCHANGED <<gen, story, styles, exc, call, step, reportlab, fault,
                   platformName, fileWritten, document, viewer, laid, curPage, pageStart, pageEnd>>
    /\ UNCHANGED pairVars

\* An 'except Exception' that reports the failure and generates again.
HandleExceptionRetry ==
    /\ pc = "except"
    /\ exc # "ImportError"
    /\ output' = Append(output, "Error generating PDF")
    /\ pc' = "main"
    /\ exc' = "None"
    /\ UNCHANGED <<gen, story, styles, call, step, reportlab, fault,
                   platformName, fileWritten, document, viewer, laid, curPage, pageStart, pageEnd>>
    /\ UNCHANGED pairVars

\* main: except Exception
HandleException ==
    /\ pc = "except"
    /\ exc # "ImportError"
    /\ output' = Append(output, "Error generating PDF")
    /\ pc' = "done"
    /\ UNCHANGED <<gen, story, styles, exc, call, step, reportlab, fault,
                   platformName, fileWritten, document, viewer, laid, curPage, pageStart, pageEnd>>
    /\ UNCHANGED pairVars

Next ==
    \/ ModuleImport
    \/ Construct
    \/ AddTitle
    \/ AddSection
    \/ AppendPageBreak
    \/ AddCallout
    \/ DocBuildBegin
    \/ LayoutFlowable
    \/ SaveDocument
    \/ SaveFails
    \/ PrintGenerated
    \/ PrintSummary
    \/ GetSizeFails
    \/ OpenViewer
    \/ ImportPlatformFails
    \/ HandleImportError
    \/ HandleException

Spec == Init /\ [][Next]_vars

(***************************************************************************)
(* SpecPair: two instances of one generator class in one process;          *)
(* add_title and the table builder are called on either, in any order.     *)
(***************************************************************************)
\* The default list after a call that adjusted the description column in
\* place to fill the page.
DefaultsAfterCallAdjusted(d) ==
    IF d = NoWidths THEN d ELSE <<d[1], (A4Width - 2 * cm) - d[1]>>

\* The default list after a call that used it: the builder hands the list
\* to Table and neither writes to it.
DefaultsAfterCall(d) == d

\* The col_widths the body of the builder sees for the argument w.
BoundWidths(w) == IF w = NoWidths /\ defaults # NoWidths THEN defaults ELSE w

InitPair ==
    /\ gen \in Generators
    /\ pc = "pair"
    /\ story = <<>>
    /\ styles = SampleStyles \cup CustomStyles(gen)
    /\ colors = ColorTable(gen)
    /\ other = [story |-> <<>>, styles |-> SampleStyles \cup CustomStyles(gen),
                colors |-> ColorTable(gen)]
    /\ defaults = ModuleDefaults(gen)
    /\ exc = "None"
    /\ call = NoCall
    /\ step = 0
    /\ reportlab = TRUE
    /\ fault = "none"
    /\ platformName = "Linux"
    /\ fileWritten = FALSE
    /\ document = NoDocument
    /\ output = <<>>
    /\ viewer = <<>>
    /\ laid = 0
    /\ curPage = 1
    /\ pageStart = <<>>
    /\ pageEnd = <<>>

pairFrame == <<gen, pc, styles, colors, reportlab, fault, platformName, fileWritten, document,
               output, viewer, laid, curPage, pageStart, pageEnd>>

\* add_title() on the first instance.
FirstAddTitle ==
    /\ pc = "pair"
    /\ step < MaxCalls
    /\ story' = add_title(gen, story)
    /\ step' = step + 1
    /\ UNCHANGED <<exc, call, other, defaults>>
    /\ UNCHANGED pairFrame

\* add_title() on the second instance.
SecondAddTitle ==
    /\ pc = "pair"
    /\ step < MaxCalls
    /\ other' = [other EXCEPT !.story = add_title(gen, other.story)]
    /\ step' = step + 1
    /\ UNCHANGED <<story, exc, call, defaults>>
    /\ UNCHANGED pairFrame

\* The table builder called on the first instance.
FirstBuilderCall ==
    /\ pc = "pair"
    /\ step < MaxCalls
    /\ \E rows \in RunRowLists(gen), w \in WidthArgs(gen) :
         LET r == create_table(gen, story, "Section", rows, BoundWidths(w), <<>>)
         IN  /\ story' = r.story
             /\ exc' = r.exc
             /\ call' = [title |-> "Section", rows |-> rows, col_widths |-> w,
                         dangerous_commands |-> <<>>, before |-> story]
             /\ defaults' = IF w = NoWidths THEN DefaultsAfterCall(defaults) ELSE defaults
    /\ step' = step + 1
    /\ UNCHANGED other
    /\ UNCHANGED pairFrame

\* The table builder called on the second instance.
SecondBuilderCall ==
    /\ pc = "pair"
    /\ step < MaxCalls
    /\ \E rows \in RunRowLists(gen), w \in WidthArgs(gen) :
         LET r == create_table(gen, other.story, "Section", rows, BoundWidths(w), <<>>)
         IN  /\ other' = [other EXCEPT !.story = r.story]
             /\ exc' = r.exc
             /\ call' = [title |-> "Section", rows |-> rows, col_widths |-> w,
                         dangerous_commands |-> <<>>, before |-> other.story]
             /\ defaults' = IF w = NoWidths THEN DefaultsAfterCall(defaults) ELSE defaults
    /\ step' = step + 1
    /\ UNCHANGED story
    /\ UNCHANGED pairFrame

NextPair ==
    \/ FirstAddTitle
    \/ SecondAddTitle
    \/ FirstBuilderCall
    \/ SecondBuilderCall

SpecPair == InitPair /\ [][NextPair]_vars

(***************************************************************************)
(* Properties.                                                             *)
(***************************************************************************)
Range(f) == {f[i] : i \in DOMAIN f}

RECURSIVE SumSeq(_)
SumSeq(w) == IF w = <<>> THEN 0 ELSE Head(w) + SumSeq(Tail(w))

Called == pc = "called"
Succeeded == pc = "called" /\ exc = "None"

\* The table a successful builder call appended (heading, table, spacer).
TheTable == story[Len(call.before) + 2]

\* Data row i of the table of the call (the header row is not a data row).
DataRow(i) == IF gen \in ComparisonGens THEN TheTable.data[i + 1] ELSE TheTable.data[i]

\* The text between <font ... color='...'> and </font> of a label markup.
FontBody(m) ==
    LET from == Len(FontOpenPrefix) + 1
        k == CHOOSE k \in from..Len(m) :
                 m[k] = "'" /\ \A j \in from..(k - 1) : m[j] # "'"
    IN  SubSeq(m, k + 2, Len(m) - Len(FontClose))

IsFontMarkup(m) ==
    /\ Len(m) >= Len(FontOpenPrefix) + Len(FontOpenSuffix) + Len(FontClose)
    /\ SubSeq(m, 1, Len(FontOpenPrefix)) = FontOpenPrefix
    /\ SubSeq(m, Len(m) - Len(FontClose) + 1, Len(m)) = FontClose

\* The part of a cell's markup that comes from the row.
RowText(cell, col, ncols) ==
    IF col < ncols THEN FontBody(cell.markup) ELSE cell.markup

Entities == { <<"&","a","m","p",";">>, <<"&","l","t",";">>, <<"&","g","t",";">>,
              <<"&","q","u","o","t",";">>, <<"&","#","x","2","7",";">> }

\* No raw '<', '>' or '&': every '&' starts an entity.
NoRawMarkup(s) ==
    \A i \in 1..Len(s) :
        /\ s[i] # "<"
        /\ s[i] # ">"
        /\ s[i] = "&" => \E e \in Entities :
                             /\ i + Len(e) - 1 <= Len(s)
                             /\ SubSeq(s, i, i + Len(e) - 1) = e

\* The reference escape, character by character.
EscapeChar(c) ==
    CASE c = "&" -> <<"&","a","m","p",";">>
      [] c = "<" -> <<"&","l","t",";">>
      [] c = ">" -> <<"&","g","t",";">>
      [] c = "\"" -> <<"&","q","u","o","t",";">>
      [] c = "'" -> <<"&","#","x","2","7",";">>
      [] OTHER -> <<c>>

RECURSIVE RefEscape(_)
RefEscape(s) == IF s = <<>> THEN <<>> ELSE EscapeChar(Head(s)) \o RefEscape(Tail(s))

SpecialChars == {"&", "<", ">", "\"", "'"}
NoSpecial(s) == \A i \in 1..Len(s) : s[i] \notin SpecialChars

\* C1: in every generator the markup handed to Paragraph for a label,
\* equivalent or description cell holds no raw '<', '>' or '&' coming from
\* the row's text.
C1_RowTextEscaped ==
    Succeeded =>
        \A i \in 1..Len(call.rows) :
            \A c \in 1..Len(DataRow(i)) :
                NoRawMarkup(RowText(DataRow(i)[c], c, Len(DataRow(i))))

\* C2: a section of N rows gives a table of exactly N rows and no header
\* row (create_command_table) or of N+1 rows whose first row is the fixed
\* header (create_comparison_table), and one table is appended.
C2_RowCount ==
    Succeeded =>
        /\ Len(story) = Len(call.before) + 3
        /\ TheTable.kind = "Table"
        /\ IF gen \in CommandGens
           THEN /\ Len(TheTable.data) = Len(call.rows)
                /\ TheTable.repeatRows = 0
                /\ \A i \in 1..Len(TheTable.data) : TheTable.data[i] # HeaderRow
           ELSE /\ Len(TheTable.data) = Len(call.rows) + 1
                /\ TheTable.data[1] = HeaderRow
                /\ TheTable.repeatRows = 1

C2_Witness ==
    /\ Succeeded
    /\ Len(call.rows) = 2
    /\ gen = "Grid"
    /\ Len(TheTable.data) = 3

\* What a generator shows for a text field of a row.
Shown(f) == IF gen = "Laravel" THEN RefEscape(f.v) ELSE f.v

\* C3: data row i of the built table carries the label and the description
\* of input row i, in input order.
C3_RowOrder ==
    Succeeded =>
        \A i \in 1..Len(call.rows) :
            LET row == call.rows[i]
                cells == DataRow(i)
                last == Len(cells)
            IN  /\ i <= Len(TheTable.data)
                /\ FontBody(cells[1].markup) = Shown(row[1])
                /\ cells[last].markup =
                       Shown(IF gen \in ComparisonGens THEN row[3] ELSE row[2])
                /\ gen \in ComparisonGens => FontBody(cells[2].markup) = Shown(row[2])

C3_Witness ==
    /\ Succeeded
    /\ gen = "Git"
    /\ call.rows = << <<Str(TxtGitInit), Str(TxtStatus)>>, <<Str(TxtPreEsc), Str(TxtStatus)>> >>
    /\ FontBody(TheTable.data[2][1].markup) = TxtPreEsc

\* C4: in the Laravel builder the label inside the font tag and the
\* description are the reference escape of the raw texts.
C4_LaravelEscapes ==
    (Succeeded /\ gen = "Laravel") =>
        \A i \in 1..Len(call.rows) :
            LET cells == DataRow(i)
            IN  /\ IsFontMarkup(cells[1].markup)
                /\ FontBody(cells[1].markup) = RefEscape(call.rows[i][1].v)
                /\ cells[2].markup = RefEscape(call.rows[i][2].v)

C4_Witness ==
    /\ Succeeded
    /\ gen = "Laravel"
    /\ Len(call.rows) >= 1
    /\ call.rows[1][1] = Str(TxtScript)
    /\ FontBody(DataRow(1)[1].markup) =
           <<"&","l","t",";","s","c","r","i","p","t","&","g","t",";">>

\* A text that is the escaped form of some text.
InEscapedForm(s) ==
    /\ NoRawMarkup(s)
    /\ \A i \in 1..Len(s) : s[i] # "\"" /\ s[i] # "'"

\* C5 as claimed: a row text already in escaped form passes the escaping
\* step of the (Laravel) builder unchanged.
C5_EscapeIdempotent ==
    (Succeeded /\ gen = "Laravel") =>
        \A i \in 1..Len(call.rows) :
            InEscapedForm(call.rows[i][1].v) =>
                FontBody(DataRow(i)[1].markup) = call.rows[i][1].v

\* C5 as amended: the Laravel builder leaves a row text unchanged exactly
\* when the text holds none of & < > " ' (so an already escaped text is
\* escaped again); the other builders have no escaping step and emit every
\* label as it is.
C5_EscapeFixedPoint ==
    Succeeded =>
        \A i \in 1..Len(call.rows) :
            LET label == call.rows[i][1].v
                body == FontBody(DataRow(i)[1].markup)
            IN  IF gen = "Laravel"
                THEN /\ (body = label) <=> NoSpecial(label)
                     /\ (DataRow(i)[2].markup = call.rows[i][2].v)
                            <=> NoSpecial(call.rows[i][2].v)
                ELSE body = label

C5_Witness ==
    /\ Succeeded
    /\ gen = "Laravel"
    /\ Len(call.rows) >= 1
    /\ call.rows[1][1] = Str(TxtPreEsc)
    /\ FontBody(DataRow(1)[1].markup) =
           <<"&","a","m","p",";","l","t",";","u","r","l","&","a","m","p",";","g","t",";">>

\* The label (first) and description (last) fields of a row of the shape
\* the builder of the generator takes.
HasNonTextField(row) ==
    /\ Len(row) = (IF gen \in ComparisonGens THEN 3 ELSE 2)
    /\ \E k \in 1..Len(row) : row[k].t # "str"

\* C9: a section with a row field that is not text makes the builder raise
\* and no table is appended.
C9_NonTextRejected ==
    (Called /\ \E i \in 1..Len(call.rows) : HasNonTextField(call.rows[i])) =>
        /\ exc # "None"
        /\ \A i \in (Len(call.before) + 1)..Len(story) : story[i].kind # "Table"

IsHeading(f) == f.kind = "Paragraph" /\ f.style = "SectionHeader"
IsSectionStmt(e) == e.op = "section"

\* Titles of the section headings of a story, in story order.
StoryTitles(s) ==
    LET h == SelectSeq(s, IsHeading) IN [i \in 1..Len(h) |-> h[i].text]

\* Titles of the sections of generate_pdf, in call order.
PlanTitles(g) ==
    LET p == SelectSeq(Plan(g), IsSectionStmt) IN [i \in 1..Len(p) |-> p[i].title]

\* The page group of a section: the PageBreak statements before its call.
GroupOf(g, title) ==
    LET k == CHOOSE k \in 1..Len(Plan(g)) :
                 Plan(g)[k].op = "section" /\ Plan(g)[k].title = title
    IN  Cardinality({b \in 1..k : Plan(g)[b].op = "pagebreak"})

IsPrefix(a, b) == Len(a) <= Len(b) /\ a = SubSeq(b, 1, Len(a))

\* Positions of the PageBreaks of a story.
BreaksOf(s) == {k \in 1..Len(s) : s[k].kind = "PageBreak"}

\* C6: the sections of the story are in the order of the add_* calls; each
\* section has exactly the PageBreaks of the earlier groups before it, so
\* sections of different groups have a PageBreak between them; and once laid
\* out, every flowable before a PageBreak ends no later than the page the
\* PageBreak closes and every flowable after it starts on a later page, so
\* a section of an earlier group is on a strictly earlier page than a
\* section of a later group.
C6_PageBreakGroups ==
    pc \notin {"ready", "called"} =>
        LET breaks == BreaksOf(story)
        IN  /\ IsPrefix(StoryTitles(story), PlanTitles(gen))
            /\ \A i \in 1..Len(story) :
                   IsHeading(story[i]) =>
                       Cardinality({b \in breaks : b < i}) = GroupOf(gen, story[i].text)
            /\ \A b \in breaks :
                   b <= Len(pageStart) =>
                       \A i \in 1..Len(pageStart) :
                           /\ i < b => pageEnd[i] <= pageStart[b]
                           /\ i > b => pageStart[i] > pageStart[b]

C6_Witness ==
    /\ pc = "build"
    /\ gen = "Laravel"
    /\ Len(pageStart) = Len(story)
    /\ NumBreaks(story) = 4
    /\ curPage = 6
    /\ StoryTitles(story) = PlanTitles(gen)

HintPrinted ==
    /\ "Required library not found" \in Range(output)
    /\ "pip install reportlab" \in Range(output)

\* C7: without reportlab the run reports the missing library with the
\* remediation hint and writes no file.
C7_MissingLibraryReported ==
    (~reportlab /\ pc \in {"traceback", "done"}) => (HintPrinted /\ ~fileWritten)

\* C8: whenever main reports 'Error generating PDF' the run has written no
\* output file.
C8_NoFileOnGenericFailure ==
    "Error generating PDF" \in Range(output) => ~fileWritten

AvailableWidth(g) == A4Width - 2 * Margin(g)

IsSectionTable(s, i) == s[i].kind = "Table" /\ i > 1 /\ IsHeading(s[i - 1])

Abs(x) == IF x < 0 THEN 0 - x ELSE x

\* C10 as claimed: the column widths of every table sum to the available
\* content width (page width minus left and right margin).
C10_WidthsFillPage ==
    \A i \in 1..Len(story) :
        story[i].kind = "Table" =>
            Abs(SumSeq(story[i].colWidths) - AvailableWidth(gen)) <= 1

\* C10 as amended: only the Laravel section tables fill the available
\* width; Git and Docker section tables are 15 cm wide, the three-column
\* tables and every callout panel 17 cm; no table is wider than the
\* available width.
C10_TableWidths ==
    \A i \in 1..Len(story) :
        story[i].kind = "Table" =>
            LET w == SumSeq(story[i].colWidths)
            IN  /\ w <= AvailableWidth(gen)
                /\ w = (IF ~IsSectionTable(story, i) THEN 17 * cm
                        ELSE IF gen = "Laravel" THEN AvailableWidth(gen)
                        ELSE IF gen \in ComparisonGens THEN 17 * cm
                        ELSE 15 * cm)

C10_Witness ==
    /\ pc = "done"
    /\ fileWritten
    /\ gen = "Laravel"
    /\ \E i, j, k \in 1..Len(story) :
           /\ IsSectionTable(story, i) /\ story[i].colWidths = <<1140, 760>>
           /\ IsSectionTable(story, j) /\ story[j].colWidths = <<1330, 570>>
           /\ ~IsSectionTable(story, k) /\ story[k].kind = "Table"
                  /\ story[k].colWidths = <<1700>>

\* w is p tenths of the available content width of generator g.
IsShare(g, w, p) == 10 * w = p * AvailableWidth(g)

\* Three columns, none further than 1 cm from a third of the table.
RoughlyEqual(w) ==
    /\ Len(w) = 3
    /\ \A i \in 1..3 : Abs(3 * w[i] - SumSeq(w)) <= 3 * cm

\* C11 as claimed: without col_widths a two-column section table is split
\* 60% / 40% of the available content width in Git, Docker and Laravel
\* alike, and a three-column table has three roughly equal columns.
C11_DefaultSplit ==
    (Succeeded /\ call.col_widths = NoWidths) =>
        IF gen \in CommandGens
        THEN /\ Len(TheTable.colWidths) = 2
             /\ IsShare(gen, TheTable.colWidths[1], 6)
             /\ IsShare(gen, TheTable.colWidths[2], 4)
        ELSE RoughlyEqual(TheTable.colWidths)

\* C11 as amended: the 60% / 40% split of the available width is the
\* default of the Laravel builder only; the Git and Docker builders default
\* to 7 cm and 8 cm (the narrower column is the label), and the
\* three-column builders always use 6, 5 and 6 cm.
C11_DefaultWidths ==
    (Succeeded /\ call.col_widths = NoWidths) =>
        LET w == TheTable.colWidths
        IN  CASE gen = "Laravel" ->
                   /\ Len(w) = 2
                   /\ IsShare(gen, w[1], 6)
                   /\ IsShare(gen, w[2], 4)
              [] gen \in {"Git", "Docker"} ->
                   /\ w = <<7 * cm, 8 * cm>>
                   /\ ~IsShare(gen, w[1], 6)
                   /\ w[1] < w[2]
              [] OTHER ->
                   /\ w = <<6 * cm, 5 * cm, 6 * cm>>
                   /\ RoughlyEqual(w)

C11_Witness ==
    /\ Succeeded
    /\ gen = "Laravel"
    /\ call.col_widths = NoWidths
    /\ TheTable.colWidths = <<1140, 760>>

\* The value of the color attribute of a label markup.
FontColor(m) ==
    LET from == Len(FontOpenPrefix) + 1
        k == CHOOSE k \in from..Len(m) :
                 m[k] = "'" /\ \A j \in from..(k - 1) : m[j] # "'"
    IN  SubSeq(m, from, k - 1)

\* The widths the Laravel call asked for.
LaravelWidths(w) == IF w = NoWidths THEN <<1140, 760>> ELSE w

\* C12: in the Laravel builder a row with a colour tag gets exactly that
\* colour and a row without one the default '#3498DB'; the tag changes
\* neither the label text, the description cell, the number and order of
\* the rows nor the column widths.
C12_LaravelColourTag ==
    (Succeeded /\ gen = "Laravel") =>
        /\ Len(TheTable.data) = Len(call.rows)
        /\ TheTable.colWidths = LaravelWidths(call.col_widths)
        /\ \A i \in 1..Len(call.rows) :
               LET row == call.rows[i]
                   cells == TheTable.data[i]
               IN  /\ Len(cells) = 2
                   /\ IsFontMarkup(cells[1].markup)
                   /\ FontColor(cells[1].markup) =
                          (IF Len(row) = 3 THEN row[3].v
                           ELSE <<"#","3","4","9","8","D","B">>)
                   /\ FontBody(cells[1].markup) = RefEscape(row[1].v)
                   /\ cells[2] = Cell(RefEscape(row[2].v), "Normal")

C12_Witness ==
    /\ Succeeded
    /\ gen = "Laravel"
    /\ Len(call.rows) = 2
    /\ Len(call.rows[1]) = 3
    /\ Len(call.rows[2]) = 2
    /\ FontColor(TheTable.data[1][1].markup) = TxtGreen
    /\ FontColor(TheTable.data[2][1].markup) = LaravelDefaultColor

AllText(row) == \A k \in 1..Len(row) : row[k].t = "str"

\* The row lengths the builder of generator g unpacks.
AcceptedLengths(g) ==
    CASE g \in {"Git", "Docker"} -> {2}
      [] g = "Laravel" -> {2, 3}
      [] OTHER -> {3}

\* C13 as claimed: every builder takes 2-element rows as (label,
\* description) and 3-element rows as (label, equivalent, description).
C13_BothShapesAccepted ==
    (/\ Called
     /\ call.rows # <<>>
     /\ \A i \in 1..Len(call.rows) :
            Len(call.rows[i]) \in {2, 3} /\ AllText(call.rows[i])) =>
        /\ exc = "None"
        /\ \A i \in 1..Len(call.rows) :
               LET row == call.rows[i]
                   cells == DataRow(i)
               IN  /\ Len(cells) = Len(row)
                   /\ FontBody(cells[1].markup) = Shown(row[1])
                   /\ cells[Len(cells)].markup = Shown(row[Len(row)])
                   /\ Len(row) = 3 => FontBody(cells[2].markup) = Shown(row[2])

\* C13 as amended: each builder takes the row shape of its own generator.
\* Git and Docker take 2-element rows (label, description); Laravel takes
\* 2-element rows and 3-element rows (label, description, colour); Basic
\* CSS, Flexbox and Grid take 3-element rows (label, equivalent,
\* description).  The first row of another length makes the builder raise
\* ValueError after the heading and before any table is appended.
C13_RowShapes ==
    Called =>
        /\ exc = "None" =>
               \A i \in 1..Len(call.rows) :
                   LET row == call.rows[i]
                       cells == DataRow(i)
                   IN  /\ Len(row) \in AcceptedLengths(gen)
                       /\ Len(cells) = (IF gen \in ComparisonGens THEN 3 ELSE 2)
                       /\ FontBody(cells[1].markup) = Shown(row[1])
                       /\ IF gen \in ComparisonGens
                          THEN /\ FontBody(cells[2].markup) = row[2].v
                               /\ cells[3].markup = row[3].v
                          ELSE cells[2].markup = Shown(row[2])
                       /\ (gen = "Laravel" /\ Len(row) = 3) =>
                              FontColor(cells[1].markup) = row[3].v
        /\ \A i \in 1..Len(call.rows) :
               (/\ Len(call.rows[i]) \notin AcceptedLengths(gen)
                /\ \A j \in 1..(i - 1) :
                       /\ Len(call.rows[j]) \in AcceptedLengths(gen)
                       /\ AllText(call.rows[j])) =>
                   /\ exc = "ValueError"
                   /\ story = Append(call.before, Para(call.title, "SectionHeader"))

C13_Witness ==
    /\ Called
    /\ gen = "Git"
    /\ Len(call.rows) = 2
    /\ Len(call.rows[1]) = 2 /\ AllText(call.rows[1])
    /\ Len(call.rows[2]) = 3 /\ AllText(call.rows[2])
    /\ exc = "ValueError"

\* Does a background command cover row r (0-based) of a table of n rows.
Covers(c, r, n) ==
    LET er == IF c.er < 0 THEN n + c.er ELSE c.er
    IN  c.sr <= r /\ r <= er

\* The colour a command paints on row r: BACKGROUND its colour,
\* ROWBACKGROUNDS the colours in turn from its first row on.
Paint(c, r) ==
    IF c.cmd = "BACKGROUND" THEN c.colors[1]
    ELSE c.colors[((r - c.sr) % Len(c.colors)) + 1]

\* The background of row r of table t: the commands are drawn in order and
\* the last one that covers the row shows.
RowBackground(t, r) ==
    LET idx == {k \in 1..Len(t.style) : Covers(t.style[k], r, Len(t.data))}
        last == CHOOSE k \in idx : \A j \in idx : j <= k
    IN  IF idx = {} THEN "none" ELSE Paint(t.style[last], r)

\* Table row (0-based) of the k-th data row (k from 0).
TableRowOf(k) == IF gen \in ComparisonGens THEN k + 1 ELSE k

\* C14: the k-th data row of a section table is white for even k and
\* tinted for odd k, so adjacent data rows differ, and the header row of a
\* three-column table has the header colour.
C14_AlternatingRows ==
    Succeeded =>
        LET n == Len(call.rows)
            shade(k) == RowBackground(TheTable, TableRowOf(k))
        IN  /\ \A k \in 0..(n - 1) :
                   shade(k) = (IF k % 2 = 0 THEN White ELSE RowAltColor(gen))
            /\ \A k \in 0..(n - 2) : shade(k) # shade(k + 1)
            /\ gen \in ComparisonGens =>
                   /\ RowBackground(TheTable, 0) = HeaderColor(gen)
                   /\ RowBackground(TheTable, 0) \notin {White, RowAltColor(gen)}

C14_Witness ==
    /\ Succeeded
    /\ gen = "Flexbox"
    /\ Len(call.rows) = 2
    /\ RowBackground(TheTable, 0) = "#2563EB"
    /\ RowBackground(TheTable, 1) = "#FFFFFF"
    /\ RowBackground(TheTable, 2) = "#F9FAFB"

\* Number of story elements a statement of generate_pdf other than a
\* section appends.
OtherElements(g, stmt) ==
    CASE stmt.op = "title" -> Len(add_title(g, <<>>))
      [] stmt.op = "pagebreak" -> 1
      [] stmt.op = "callout" -> IF stmt.spacer THEN 2 ELSE 1
      [] OTHER -> 0

RECURSIVE SumOther(_, _)
\* Elements appended by the first n statements, sections not counted.
SumOther(g, n) ==
    IF n = 0 THEN 0 ELSE SumOther(g, n - 1) + OtherElements(g, Plan(g)[n])

\* Builder calls among the first n statements.
SectionsDone(g, n) == Cardinality({k \in 1..n : Plan(g)[k].op = "section"})

\* A successful builder call appends heading, table and spacer to the end
\* of the story and leaves the rest of it as it was.
AppendsThree ==
    (call' # call /\ exc' = "None") =>
        /\ Len(story') = Len(story) + 3
        /\ SubSeq(story', 1, Len(story)) = story
        /\ story'[Len(story) + 1] = Para(call'.title, "SectionHeader")
        /\ story'[Len(story) + 2].kind = "Table"
        /\ story'[Len(story) + 2].data # <<>>
        /\ story'[Len(story) + 3] = Spacer((3 * cm) \div 10)

\* After k successful calls the story holds 3k elements besides those of
\* the title, the page breaks and the callouts, and every section heading
\* is immediately followed by its table and the spacer.
GrownByThreeEach ==
    (pc = "generate" /\ exc = "None") =>
        /\ Len(story) = 3 * SectionsDone(gen, step - 1) + SumOther(gen, step - 1)
        /\ Len(SelectSeq(story, IsHeading)) = SectionsDone(gen, step - 1)
        /\ \A i \in 1..Len(story) :
               IsHeading(story[i]) =>
                   /\ i + 2 <= Len(story)
                   /\ story[i + 1].kind = "Table"
                   /\ story[i + 2].kind = "Spacer"

\* C15: each successful call of a table builder appends exactly heading,
\* table, spacer at the end of the story and changes nothing before them;
\* after k calls the story has grown by 3k elements and every section table
\* directly follows its own heading.
C15_ThreeElementsPerCall == [][AppendsThree]_vars /\ []GrownByThreeEach

C15_Witness ==
    /\ pc = "generate"
    /\ exc = "None"
    /\ gen = "Git"
    /\ SectionsDone(gen, step - 1) = 2
    /\ Len(story) = 8
    /\ IsSectionTable(story, 7)

IsMainTitle(f) == f.kind = "Paragraph" /\ f.style = "MainTitle"

\* C16: the story handed to doc.build starts with the main-title paragraph
\* of the generator and holds it exactly once; at no point of generate_pdf
\* does any other element precede it.
C16_TitleFirst ==
    /\ (pc \in {"generate", "build", "except"} /\ story # <<>>) =>
           /\ story[1] = Para(MainTitleText(gen), "MainTitle")
           /\ Len(SelectSeq(story, IsMainTitle)) = 1
    /\ pc = "build" => story # <<>>

C16_Witness ==
    /\ pc = "build"
    /\ gen = "Docker"
    /\ story[1] = Para("Docker Commands Cheat Sheet", "MainTitle")
    /\ story[2].kind = "Paragraph" /\ story[2].style = "Subtitle"
    /\ Len(story) > 20

\* A table that is not the table of a section: a panel.
IsPanel(s, i) == s[i].kind = "Table" /\ ~IsSectionTable(s, i)

\* The callouts of generate_pdf: the panels other than the colour legend of
\* the Laravel title block.
IsCalloutAt(s, i) == IsPanel(s, i) /\ s[i].data[1][1].text # "legend_text"

\* C17: every callout (and the legend panel) is a table of exactly one row
\* and one cell, and no section heading or section table follows a callout
\* in the story.
C17_CalloutsLast ==
    pc \in {"generate", "build", "except"} =>
        /\ \A i \in 1..Len(story) :
               IsPanel(story, i) =>
                   /\ Len(story[i].data) = 1
                   /\ Len(story[i].data[1]) = 1
                   /\ story[i].data[1][1].kind = "Paragraph"
                   /\ Len(story[i].colWidths) = 1
        /\ \A i \in 1..Len(story) :
               IsCalloutAt(story, i) =>
                   \A j \in (i + 1)..Len(story) :
                       /\ ~IsHeading(story[j])
                       /\ ~IsSectionTable(story, j)
        /\ pc = "build" => IsCalloutAt(story, Len(story))

C17_Witness ==
    /\ pc = "build"
    /\ gen = "Git"
    /\ IsCalloutAt(story, Len(story))
    /\ IsCalloutAt(story, Len(story) - 2)
    /\ story[Len(story) - 2].data[1][1].text = "workflows_text"
    /\ IsSectionTable(story, Len(story) - 4)

SuccessMessages == {"generated successfully", "PDF created", "File size", "Created"}
ErrorMessages == {"Error generating PDF", "Required library not found"}

\* C18: the success report is printed only after doc.build has completed,
\* and no run prints both a 'generated successfully' message and an error
\* message.
C18_ReportsExclusive ==
    /\ Range(output) \cap SuccessMessages # {} => fileWritten
    /\ ~ /\ "generated successfully" \in Range(output)
         /\ Range(output) \cap ErrorMessages # {}

\* Position of a run in program order.
Rank(p) ==
    CASE p = "import" -> 0
      [] p = "main" -> 1
      [] p = "generate" -> 2
      [] p = "build" -> 3
      [] p = "print_generated" -> 4
      [] p = "summary" -> 5
      [] p = "viewer" -> 6
      [] p = "except" -> 7
      [] OTHER -> 8

\* A step of a run never goes back, enters doc.build only from
\* generate_pdf with nothing written yet, hands a failure of assembly or
\* write to main's handlers, and ends the run after a handler without
\* writing.
NoRetryStep ==
    /\ Rank(pc') >= Rank(pc)
    /\ (pc' = "build" /\ pc # "build") =>
           (pc = "generate" /\ exc = "None" /\ ~fileWritten)
    /\ (fileWritten' /\ ~fileWritten) => (pc = "build" /\ pc' # "build")
    /\ (pc \in {"generate", "build"} /\ exc' # "None") =>
           (pc' = "except" /\ fileWritten' = fileWritten)
    /\ pc = "except" => (pc' = "done" /\ fileWritten' = fileWritten /\ story' = story)

\* C19: doc.build is invoked at most once in a run; a failure during
\* assembly or write reaches main as an exception, no second build or write
\* follows, and the run ends.
C19_BuildOnce == [][NoRetryStep]_vars

C19_Witness ==
    /\ pc = "done"
    /\ fault = "save"
    /\ exc = "OSError"
    /\ ~fileWritten
    /\ output = <<"Error generating PDF">>

\* The widths of a section table built without col_widths.
FreshDefault(g) ==
    CASE g \in {"Git", "Docker"} -> <<700, 800>>
      [] g = "Laravel" -> <<1140, 760>>
      [] OTHER -> <<600, 500, 600>>

\* new is old with heading, table and spacer of a builder call appended.
BuiltOn(old, new) ==
    /\ Len(new) = Len(old) + 3
    /\ IsHeading(new[Len(old) + 1])

\* A call on one instance changes only the story of that instance: the
\* story, stylesheet and colour table of the other stay as they were, and
\* so does the default col_widths list; a call that omits col_widths builds
\* its table with the widths of the signature, whatever was called before.
NoSharedStep ==
    /\ story' # story => other' = other
    /\ other' # other =>
           /\ story' = story
           /\ other'.styles = other.styles
           /\ other'.colors = other.colors
    /\ styles' = styles
    /\ colors' = colors
    /\ defaults' = defaults
    /\ (call'.col_widths = NoWidths /\ BuiltOn(story, story')) =>
           story'[Len(story) + 2].colWidths = FreshDefault(gen)
    /\ (call'.col_widths = NoWidths /\ BuiltOn(other.story, other'.story)) =>
           other'.story[Len(other.story) + 2].colWidths = FreshDefault(gen)

\* C20: two instances share no mutable state, and the default column
\* widths are the same in every call that omits col_widths.
C20_NoSharedState == [][NoSharedStep]_vars

C20_Witness ==
    /\ pc = "pair"
    /\ gen = "Git"
    /\ step = 3
    /\ Len(story) = 3
    /\ Len(other.story) = 6
    /\ story[2].colWidths = <<700, 800>>
    /\ other.story[2].colWidths = <<700, 800>>
    /\ other.story[5].colWidths = <<700, 800>>

(***************************************************************************)
(* C21                                                                     *)
(***************************************************************************)
\* The story generate_pdf has built after its first n statements when every
\* section is given the rows GoodRows.
RECURSIVE StoryAfter(_, _)
StoryAfter(g, n) ==
    IF n = 0 THEN <<>>
    ELSE LET s == StoryAfter(g, n - 1)
             stmt == Plan(g)[n]
         IN  CASE stmt.op = "title" -> add_title(g, s)
               [] stmt.op = "section" ->
                    create_table(g, s, stmt.title, GoodRows(g), stmt.widths, stmt.danger).story
               [] stmt.op = "pagebreak" -> StoryAppend(s, PageBreak)
               [] OTHER ->
                    LET s1 == StoryAppend(s, Callout(stmt.title))
                    IN  IF stmt.spacer THEN StoryAppend(s1, Spacer((3 * cm) \div 10)) ELSE s1

\* C21: two runs of one generator on the same sections write byte-identical
\* files: the file a run wrote is the file a run of the same story writes at
\* any other reading of the clock.
C21_ByteIdentical ==
    fileWritten =>
        \A t \in Clock : document = PDFDocument(StoryAfter(gen, Len(Plan(gen))), t)

(***************************************************************************)
(* C22                                                                     *)
(***************************************************************************)
A4Height == 2970

\* topMargin and bottomMargin of SimpleDocTemplate.
TopMargin(g) == IF g = "Docker" THEN 2 * cm ELSE (15 * cm) \div 10
BottomMargin(g) == IF g = "Docker" THEN (15 * cm) \div 10 ELSE cm

\* Height of the page between the margins (the frame is no taller).
FrameHeight(g) == A4Height - TopMargin(g) - BottomMargin(g)

\* One line of a cell paragraph: leading 12 pt (styles 'Normal' and
\* 'Description'), rounded down.
LineHeight == 42

\* TOPPADDING / BOTTOMPADDING of the section tables: 8 pt in Docker, 6 pt in
\* the others, rounded down.
CellPadding(g) == IF g = "Docker" THEN 28 ELSE 21

\* A table row is at least one line of text between its two paddings.
MinRowHeight(g) == LineHeight + 2 * CellPadding(g)

\* Number of content rows of the sections of each page group of generate_pdf
\* (the groups are separated by the PageBreaks), as the add_* methods list them.
PageRows(g) ==
    CASE g = "Git" -> <<13 + 12 + 13 + 10, 13 + 10 + 11 + 10>>
      [] g = "Docker" -> <<13 + 8 + 13, 9 + 11 + 10 + 12 + 12>>
      [] g = "Laravel" -> <<15 + 42 + 33, 25 + 42 + 12, 10 + 9 + 13 + 11,
                            10 + 9 + 10 + 10 + 10, 17 + 16 + 10>>
      [] g = "BasicCSS" -> <<14 + 14 + 13 + 17 + 14>>
      [] g = "Flexbox" -> <<25 + 18>>
      [] OTHER -> <<31 + 28>>

\* Pages the source announces: docstring '2-page', comments 'Page n',
\* 'Single page' (the Basic CSS script announces none).
DeclaringGens == Generators \ {"BasicCSS"}
DeclaredPages(g) == Len(PageRows(g))

\* C22: the written document has exactly the declared number of pages, and
\* the rows of every page group fit the height of one page.
C22_DeclaredPages ==
    (fileWritten /\ gen \in DeclaringGens) =>
        /\ curPage = DeclaredPages(gen)
        /\ \A k \in 1..DeclaredPages(gen) :
             PageRows(gen)[k] * MinRowHeight(gen) <= FrameHeight(gen)

(***************************************************************************)
(* C23                                                                     *)
(***************************************************************************)
\* d occurs in s at some position.
Occurs(d, s) ==
    \E k \in 1..(Len(s) + 1) :
        \A j \in 1..Len(d) : k + j - 1 <= Len(s) /\ s[k + j - 1] = d[j]

\* C23: in the Git builder a label is in the warning colour '#E74C3C' iff
\* its command text contains one of the call's dangerous_commands, and in
\* the default colour '#FF6B35' otherwise (also for an empty or omitted
\* list).
C23_GitDangerColour ==
    (Succeeded /\ gen = "Git") =>
        \A i \in 1..Len(call.rows) :
            LET cmd == call.rows[i][1].v
                colour == FontColor(TheTable.data[i][1].markup)
                dangerous == \E k \in 1..Len(call.dangerous_commands) :
                                 Occurs(call.dangerous_commands[k], cmd)
            IN  /\ colour \in {<<"#","E","7","4","C","3","C">>, <<"#","F","F","6","B","3","5">>}
                /\ colour = <<"#","E","7","4","C","3","C">> <=> dangerous

C23_Witness ==
    /\ Succeeded
    /\ gen = "Git"
    /\ Len(call.rows) = 2
    /\ call.dangerous_commands # <<>>
    /\ call.rows[1][1].v = TxtGitInit
    /\ FontColor(TheTable.data[1][1].markup) = WarningColor
    /\ FontColor(TheTable.data[2][1].markup) = GitCommandColor

(***************************************************************************)
(* C24                                                                     *)
(***************************************************************************)
\* The danger marker of the descriptions (warning sign, two code points).
DangerMarker == <<"U+26A0", "U+FE0F">>

\* The call is one of the script's own builder calls.
IsSourceCall ==
    [title |-> call.title, rows |-> call.rows, col_widths |-> call.col_widths,
     dangerous_commands |-> call.dangerous_commands] \in SourceCalls(gen)

\* C24: in every section of the Git cheat sheet the rows in the warning
\* colour are exactly the rows whose description carries the danger marker.
C24_MarkedIffWarning ==
    (Succeeded /\ gen = "Git" /\ IsSourceCall) =>
        \A i \in 1..Len(call.rows) :
            FontColor(TheTable.data[i][1].markup) = <<"#","E","7","4","C","3","C">>
                <=> Occurs(DangerMarker, call.rows[i][2].v)

(***************************************************************************)
(* C25                                                                     *)
(***************************************************************************)
\* The colours the legend of Laravel's add_title explains: blue, red, green.
LegendColors ==
    { <<"#","3","4","9","8","D","B">>, <<"#","E","7","4","C","3","C">>,
      <<"#","2","7","A","E","6","0">> }

\* C25: every label of every section table of the Laravel cheat sheet is in
\* one of the three colours of the legend.
C25_LegendColours ==
    (Succeeded /\ gen = "Laravel" /\ IsSourceCall) =>
        \A i \in 1..Len(TheTable.data) :
            /\ IsFontMarkup(TheTable.data[i][1].markup)
            /\ FontColor(TheTable.data[i][1].markup) \in LegendColors

C25_Witness ==
    /\ Succeeded
    /\ gen = "Laravel"
    /\ IsSourceCall
    /\ call.title = "Installation & Setup"
    /\ Len(TheTable.data) = 15
    /\ \A c \in LegendColors :
         \E i \in 1..Len(TheTable.data) : FontColor(TheTable.data[i][1].markup) = c

(***************************************************************************)
(* C26                                                                     *)
(***************************************************************************)
\* C26: a table-builder call that fails on a malformed row leaves the story
\* exactly as it was before the call.
C26_AllOrNothing ==
    (Called /\ exc # "None" /\ call.rows # <<>>) => story = call.before

(***************************************************************************)
(* C27                                                                     *)
(***************************************************************************)
SummaryLines == {"PDF created", "File size", "Created"}

\* C27: the viewer is launched at most once in a run, only once the file
\* is written and the summary printed, never in a run that failed, and with
\* the command of the platform: 'open' on Darwin, 'start' on Windows,
\* 'xdg-open' on any other system.
C27_ViewerLaunch ==
    /\ Len(viewer) <= 1
    /\ viewer # <<>> =>
         /\ fileWritten
         /\ "generated successfully" \in Range(output)
         /\ SummaryLines \subseteq Range(output)
         /\ exc = "None"
         /\ Range(output) \cap ErrorMessages = {}
         /\ pc = "done"
         /\ viewer[1] = (CASE platformName = "Darwin" -> "open"
                           [] platformName = "Windows" -> "start"
                           [] OTHER -> "xdg-open")
    /\ (pc = "done" /\ exc # "None") => viewer = <<>>

C27_Witness ==
    /\ pc = "done"
    /\ fileWritten
    /\ platformName = "Windows"
    /\ viewer = <<"start">>

(***************************************************************************)
(* C28                                                                     *)
(***************************************************************************)
\* generate_pdf has executed every statement before doc.build.
StoryBuilt == step = Len(Plan(gen)) + 1

\* C28: a PageBreak is never the first element of the story and never
\* directly follows another PageBreak; in the story handed to doc.build it
\* is not the last element either, and there is exactly one PageBreak for
\* Git and for Docker, four for Laravel and none for Basic CSS, Flexbox and
\* Grid.
C28_PageBreaks ==
    /\ \A i \in 1..Len(story) :
           story[i].kind = "PageBreak" => (i > 1 /\ story[i - 1].kind # "PageBreak")
    /\ StoryBuilt =>
         /\ story # <<>>
         /\ story[Len(story)].kind # "PageBreak"
         /\ NumBreaks(story) = (CASE gen \in {"Git", "Docker"} -> 1
                                  [] gen = "Laravel" -> 4
                                  [] OTHER -> 0)

C28_Witness ==
    /\ gen = "Laravel"
    /\ pc = "build"
    /\ StoryBuilt
    /\ NumBreaks(story) = 4
    /\ laid = Len(story)

(***************************************************************************)
(* C29                                                                     *)
(***************************************************************************)
\* Style names the paragraphs of the elements s[from..] were built with.
UsedStyles(s, from) ==
    UNION { IF s[i].kind = "Paragraph" THEN {s[i].style}
            ELSE IF s[i].kind = "Table"
            THEN UNION { { s[i].data[r][c].style :
                           c \in {k \in 1..Len(s[i].data[r]) :
                                     s[i].data[r][k].kind = "Paragraph"} } :
                         r \in 1..Len(s[i].data) }
            ELSE {} : i \in from..Len(s) }

\* A step changes the stylesheet only in the constructor, where every
\* custom style is added, each to a sheet that does not hold it yet; a step
\* that appends to the story finds the custom styles it uses registered.
StyleStep ==
    /\ styles' # styles =>
         /\ pc = "main"
         /\ exc' = "None"
         /\ styles' = styles \cup SampleStyles \cup CustomStyles(gen)
         /\ Cardinality(styles') = Cardinality(SampleStyles) + Len(StyleAdds(gen))
    /\ pc = "main" => (styles' # styles /\ story' = <<>>)
    /\ Len(story') > Len(story) =>
         UsedStyles(story', Len(story) + 1) \cap CustomStyles(gen) \subseteq styles

====
